---- MODULE Spec2Model ----
(***************************************************************************)
(* Model of the financial-data extraction, feature synthesis, ensemble     *)
(* prediction and pipeline orchestration code of                           *)
(*   src/src/ml/production_pipeline.py                                     *)
(*   src/src/ml/production_ensemble_predictor.py                           *)
(*   src/src/ml/pdf_financial_extractor.py                                 *)
(*                                                                         *)
(* Fixed-point units (Python floats become integers):                      *)
(*   probabilities, confidences, completeness : thousandths  (0..1000)     *)
(*   0-1 feature scores                       : hundredths   (0..100)      *)
(*   sub-scores (0-100 points)                : hundredths of a point      *)
(*   money (revenue, funding, TAM)            : thousands of USD           *)
(*   market_size (billions)                   : tenths of a billion        *)
(*   addressable market (billions)            : hundredths of a billion    *)
(*   growth_rate feature                      : hundredths                 *)
(* Optional[...] values are sequences: <<>> is None, <<x>> is x.           *)
(* Strings stored inside feature dicts are kept as small integer ids so    *)
(* that a dict has values of one sort.                                     *)
(***************************************************************************)
EXTENDS Integers, Sequences, FiniteSets, TLC

VARIABLES
    AGENTS_AVAILABLE,    \* production_pipeline.py module flag (lines 44-50)
    agent_orchestrator,  \* ProductionMLPipeline.agent_orchestrator: "none" | "ready"
    analysis_count,      \* ProductionMLPipeline.analysis_count
    total_processing_time, \* ProductionMLPipeline.total_processing_time
    analysis_cache,      \* production_main.analysis_cache: analysis id -> entry
    background_tasks,    \* the API's background tasks and requests in flight
    predictor_call,      \* the ProductionEnsemblePredictor method call in hand
    model_file,          \* Optional: what save_model wrote to the file path
    pc,                  \* caller's position: "idle" | "returned"
    input_data,          \* the ProductionAnalysisInput of the call in hand (as passed)
    manual_obj,          \* the caller's manual_data dict object after the call
    ml_features,         \* analyze_startup's working feature dict
    startup_data,        \* Optional: the dict handed to predict_startup_success
    steps,               \* what each step of the call did (history of the call)
    call_env,            \* what the PDF, the agents and the fitted models gave the call
    extractor_call,      \* the ProductionPDFExtractor method call in hand: op, arg, ret
    outcome,             \* "none" | "returned" | "raised"
    result,              \* Optional ProductionAnalysisResult
    prediction,          \* Optional ProductionPredictionResult of a direct predict call
    is_trained,          \* ProductionEnsemblePredictor.is_trained
    artifact,            \* the predictor's trained components, by training run
    train_count,         \* number of train_ensemble_model executions started
    callers              \* concurrent callers of predict: thread -> record

vars == <<AGENTS_AVAILABLE, agent_orchestrator, analysis_count, total_processing_time,
          analysis_cache, background_tasks, predictor_call, model_file, pc, input_data,
          manual_obj, ml_features, startup_data, steps, call_env, extractor_call,
          outcome, result, prediction, is_trained, artifact, train_count, callers>>

pipelineVars == <<AGENTS_AVAILABLE, agent_orchestrator, analysis_count,
                  total_processing_time, analysis_cache, background_tasks,
                  predictor_call, model_file, pc,
                  input_data, manual_obj, ml_features, steps, call_env, extractor_call,
                  outcome, result>>

-----------------------------------------------------------------------------
(* Generic helpers                                                          *)

Milli == 10 * 100        \* one whole, in thousandths
Cent  == 10 * 10         \* one whole, in hundredths

None == <<>>
Some(x) == <<x>>
IsNone(o) == o = <<>>
IsSome(o) == o /= <<>>
TheVal(o) == o[1]

Min(a, b) == IF a <= b THEN a ELSE b
Max(a, b) == IF a >= b THEN a ELSE b

EmptyDict == [k \in {} |-> 0]

\* dict.get(key, default)
Get(d, k, default) == IF k \in DOMAIN d THEN d[k] ELSE default

\* dict.update(other): keys of other overwrite
Update(d, other) ==
    [k \in (DOMAIN d) \cup (DOMAIN other) |->
        IF k \in DOMAIN other THEN other[k] ELSE d[k]]

\* floor of the square root, by bisection on lo..hi (lo*lo <= n < (hi+1)*(hi+1))
RECURSIVE IsqrtIn(_, _, _)
IsqrtIn(n, lo, hi) ==
    IF lo >= hi THEN lo
    ELSE LET mid == (lo + hi + 1) \div 2
         IN  IF mid * mid <= n THEN IsqrtIn(n, mid, hi) ELSE IsqrtIn(n, lo, mid - 1)

Isqrt(n) == IsqrtIn(n, 0, Milli)

RECURSIVE SumSeq(_)
SumSeq(s) == IF s = <<>> THEN 0 ELSE Head(s) + SumSeq(Tail(s))

RECURSIVE SumSqSeq(_)
SumSqSeq(s) == IF s = <<>> THEN 0 ELSE Head(s) * Head(s) + SumSqSeq(Tail(s))

\* numpy.std (population standard deviation), floor to the unit
NpStd(s) ==
    LET n == Len(s)
    IN  Isqrt((n * SumSqSeq(s) - SumSeq(s) * SumSeq(s)) \div (n * n))

\* 1.96 * sigma
TimesZ(sigma) == (196 * sigma) \div 100

-----------------------------------------------------------------------------
(* ProductionEnsemblePredictor: feature synthesis                           *)

\* ProductionEnsemblePredictor.extract_features_from_data: every field is
\* startup_data.get(<input key>, <default>).  Identity fields that are not
\* numeric model inputs (company_name, industry, location, business_stage)
\* take no part in any computation and are left out of the record.
extract_features_from_data(d) ==
    LET revenue     == Get(d, "revenue", 0)
        market_size == Get(d, "market_size", 10)
    IN  [ founded_year                  |-> Get(d, "founded_year", 2020),
          team_size                     |-> Get(d, "team_size", 5),
          funding_total_usd             |-> Get(d, "funding_total", 0),
          funding_rounds                |-> Get(d, "funding_rounds", 0),
          current_revenue_usd           |-> revenue,
          projected_revenue_y1          |-> Get(d, "projected_revenue_y1", revenue * 2),
          projected_revenue_y3          |-> Get(d, "projected_revenue_y3", revenue * 5),
          burn_rate_monthly             |-> Get(d, "burn_rate", 50),
          runway_months                 |-> Get(d, "runway_months", 12),
          gross_margin_percent          |-> Get(d, "gross_margin", 70),
          market_size_billions          |-> market_size,
          addressable_market_billions   |-> Get(d, "sam", market_size),
          market_growth_rate            |-> Get(d, "market_growth_rate", 10),
          competition_level             |-> Get(d, "competition_level", 3),
          competitive_advantage_score   |-> Get(d, "competitive_advantage", 50),
          founder_experience_years      |-> Get(d, "founder_experience", 5),
          team_technical_score          |-> Get(d, "team_technical_score", 60),
          team_business_score           |-> Get(d, "team_business_score", 60),
          advisor_quality_score         |-> Get(d, "advisor_quality", 50),
          product_readiness_score       |-> Get(d, "product_readiness", 60),
          tech_differentiation_score    |-> Get(d, "tech_differentiation", 50),
          user_traction_score           |-> Get(d, "user_traction", 30),
          product_market_fit_score      |-> Get(d, "pmf_score", 40),
          business_model_clarity        |-> Get(d, "business_model_clarity", 60),
          revenue_model_strength        |-> Get(d, "revenue_model_strength", 60),
          scalability_score             |-> Get(d, "scalability", 60),
          go_to_market_score            |-> Get(d, "gtm_score", 50),
          market_risk_score             |-> Get(d, "market_risk", 40),
          technical_risk_score          |-> Get(d, "tech_risk", 40),
          team_risk_score               |-> Get(d, "team_risk", 30),
          financial_risk_score          |-> Get(d, "financial_risk", 50),
          regulatory_risk_score         |-> Get(d, "regulatory_risk", 30),
          industry_trend_score          |-> Get(d, "industry_trend", 60),
          economic_environment_score    |-> Get(d, "economic_environment", 50),
          vc_funding_climate_score      |-> Get(d, "vc_climate", 60),
          pitch_clarity_score           |-> Get(d, "pitch_clarity", 60),
          financial_projections_realism |-> Get(d, "projections_realism", 60),
          presentation_quality_score    |-> Get(d, "presentation_quality", 60) ]

-----------------------------------------------------------------------------
(* ProductionEnsemblePredictor: the six sub-scores, in hundredths of a point *)

\* min(market_size/10, 1)*30 + min(growth/20, 1)*25 + (5-competition)/4*20 + advantage*25
calculate_market_score(f) ==
      Min(f.market_size_billions, 100) * 30
    + (Min(f.market_growth_rate * 5, 100) * 25)
    + (5 - f.competition_level) * 500
    + f.competitive_advantage_score * 25

\* min(experience/10, 1)*30 + technical*25 + business*25 + advisor*20
calculate_team_score(f) ==
      Min(f.founder_experience_years, 10) * 300
    + f.team_technical_score * 25
    + f.team_business_score * 25
    + f.advisor_quality_score * 20

\* readiness*30 + differentiation*25 + traction*25 + pmf*20
calculate_product_score(f) ==
      f.product_readiness_score * 30
    + f.tech_differentiation_score * 25
    + f.user_traction_score * 25
    + f.product_market_fit_score * 20

\* (clarity + revenue_model + scalability + gtm) * 25
calculate_business_model_score(f) ==
      f.business_model_clarity * 25
    + f.revenue_model_strength * 25
    + f.scalability_score * 25
    + f.go_to_market_score * 25

\* min(revenue/1e6, 1)*25 + min((y1/max(revenue, 1))/3, 1)*25
\*   + min(runway/24, 1)*25 + margin/100*25
\* Money is in thousands of USD, so max(revenue, 1 USD) is the revenue itself
\* unless it is 0, and then any projection of 1K or more saturates the term.
calculate_financial_score(f) ==
    LET revenue_score == (Min(f.current_revenue_usd, 1000) * 25) \div 10
        growth_score  ==
            IF f.current_revenue_usd = 0
            THEN (IF f.projected_revenue_y1 > 0 THEN 2500 ELSE 0)
            ELSE IF f.projected_revenue_y1 >= 3 * f.current_revenue_usd
                 THEN 2500
                 ELSE (f.projected_revenue_y1 * 2500) \div (3 * f.current_revenue_usd)
        runway_score  == (Min(f.runway_months, 24) * 2500) \div 24
        margin_score  == f.gross_margin_percent * 25
    IN  revenue_score + growth_score + runway_score + margin_score

\* (market*20 + tech*20 + team*20 + financial*20 + regulatory*20) * 100
calculate_risk_score(f) ==
    ( f.market_risk_score * 20
    + f.technical_risk_score * 20
    + f.team_risk_score * 20
    + f.financial_risk_score * 20
    + f.regulatory_risk_score * 20 ) * 100

-----------------------------------------------------------------------------
(* ProductionEnsemblePredictor: training                                    *)

\* the columns of create_enhanced_training_data's samples, is_success left out
FEATURE_COLUMNS ==
    << "funding_total_usd", "funding_rounds", "team_size", "founded_year",
       "current_revenue_usd", "projected_revenue_y1", "projected_revenue_y3",
       "burn_rate_monthly", "runway_months", "gross_margin_percent",
       "market_size_billions", "addressable_market_billions", "market_growth_rate",
       "competition_level", "competitive_advantage_score",
       "founder_experience_years", "team_technical_score", "team_business_score",
       "advisor_quality_score",
       "product_readiness_score", "tech_differentiation_score", "user_traction_score",
       "product_market_fit_score",
       "business_model_clarity", "revenue_model_strength", "scalability_score",
       "go_to_market_score",
       "market_risk_score", "technical_risk_score", "team_risk_score",
       "financial_risk_score", "regulatory_risk_score",
       "industry_trend_score", "economic_environment_score", "vc_funding_climate_score",
       "pitch_clarity_score", "financial_projections_realism",
       "presentation_quality_score" >>

MODEL_VERSION == "2.0.0"

\* ProductionEnsemblePredictor.__init__: nothing fitted.  A component holds the
\* number of the training run that last wrote it; 0 is the constructor's value.
InitArtifact ==
    [ feature_columns    |-> 0,
      feature_scaler     |-> 0,
      models             |-> [m \in {} |-> 0],
      base_models        |-> [m \in {"random_forest", "gradient_boosting", "ada_boost"} |-> 0],
      ensemble_model     |-> 0,
      ensemble_fitted    |-> FALSE,
      model_performance  |-> 0,
      feature_importance |-> 0,
      model_version      |-> MODEL_VERSION ]

\* The statements of train_ensemble_model that write the predictor, in order.
TRAIN_STEPS ==
    << "columns", "scaler", "random_forest", "gradient_boosting", "ada_boost",
       "ensemble", "ensemble_fit", "trained", "importance" >>

\* One statement of train_ensemble_model, executed by training run `run`.
TrainStep(a, step, run) ==
    CASE step = "columns"      -> [a EXCEPT !.feature_columns = run]
      [] step = "scaler"       -> [a EXCEPT !.feature_scaler = run]
      [] step \in {"random_forest", "gradient_boosting", "ada_boost"} ->
             [a EXCEPT !.base_models = [@ EXCEPT ![step] = run],
                       !.models = Update(@, [m \in {step} |-> run])]
      [] step = "ensemble"     -> [a EXCEPT !.ensemble_model = run,
                                            !.ensemble_fitted = FALSE]
      [] step = "ensemble_fit" -> [a EXCEPT !.ensemble_fitted = TRUE]
      [] step = "trained"      -> [a EXCEPT !.model_performance = run]
      [] step = "importance"   ->
             IF "random_forest" \in DOMAIN a.models
             THEN [a EXCEPT !.feature_importance = run]
             ELSE a

RECURSIVE TrainFrom(_, _, _)
TrainFrom(a, i, run) ==
    IF i > Len(TRAIN_STEPS) THEN a
    ELSE TrainFrom(TrainStep(a, TRAIN_STEPS[i], run), i + 1, run)

\* train_ensemble_model run from start to end by one caller, nobody else running
train_ensemble_model(a, run) == TrainFrom(a, 1, run)

-----------------------------------------------------------------------------
(* ProductionEnsemblePredictor: prediction                                  *)

HIGH_POTENTIAL_THRESHOLD   == 700
MEDIUM_POTENTIAL_THRESHOLD == 400

\* success_category with strict comparisons
success_category_strict(p) ==
    IF p > HIGH_POTENTIAL_THRESHOLD THEN "High Potential"
    ELSE IF p > MEDIUM_POTENTIAL_THRESHOLD THEN "Medium Potential"
    ELSE "Low Potential"

success_category(p) ==
    IF p >= HIGH_POTENTIAL_THRESHOLD THEN "High Potential"
    ELSE IF p >= MEDIUM_POTENTIAL_THRESHOLD THEN "Medium Potential"
    ELSE "Low Potential"

investment_recommendation(p) ==
    IF p >= HIGH_POTENTIAL_THRESHOLD THEN "INVEST"
    ELSE IF p >= MEDIUM_POTENTIAL_THRESHOLD THEN "WATCH"
    ELSE "PASS"

\* confidence_interval with the clipping to [0, 1] left out
confidence_interval_unclipped(p, pred_std) ==
    << p - TimesZ(pred_std), p + TimesZ(pred_std) >>

\* max(0, p - 1.96*std), min(1, p + 1.96*std)
confidence_interval(p, pred_std) ==
    << Max(0, p - TimesZ(pred_std)), Min(Milli, p + TimesZ(pred_std)) >>

\* predict_startup_success once the model is trained.  The fitted sklearn
\* models are opaque: `p` is ensemble_model.predict_proba(...)[0, 1] and
\* `individual_predictions` the base models' predict_proba(...)[0, 1].
predict_startup_success(d, p, individual_predictions, version) ==
    LET features == extract_features_from_data(d)
        pred_std == NpStd(individual_predictions)
    IN  [ success_probability       |-> p,
          success_category          |-> success_category(p),
          confidence_interval       |-> confidence_interval(p, pred_std),
          investment_recommendation |-> investment_recommendation(p),
          market_score              |-> calculate_market_score(features),
          team_score                |-> calculate_team_score(features),
          product_score             |-> calculate_product_score(features),
          business_model_score      |-> calculate_business_model_score(features),
          financial_score           |-> calculate_financial_score(features),
          risk_score                |-> calculate_risk_score(features),
          model_confidence          |-> Milli - pred_std,
          model_version             |-> version,
          feature_count             |-> Len(FEATURE_COLUMNS) ]

-----------------------------------------------------------------------------
(* ProductionPDFExtractor                                                   *)

\* no extractor method call in hand
NoCall == [op |-> "none", arg |-> <<>>, ret |-> <<>>]

\* A str is a sequence of one-character strings.
Digits == {"0", "1", "2", "3", "4", "5", "6", "7", "8", "9"}

DigitVal(c) ==
    CASE c = "0" -> 0 [] c = "1" -> 1 [] c = "2" -> 2 [] c = "3" -> 3 [] c = "4" -> 4
      [] c = "5" -> 5 [] c = "6" -> 6 [] c = "7" -> 7 [] c = "8" -> 8 [] c = "9" -> 9

\* str.upper() and str.lower(), on the letters that occur
Upper(c) ==
    CASE c = "k" -> "K" [] c = "m" -> "M" [] c = "b" -> "B" [] c = "a" -> "A"
      [] c = "n" -> "N" [] OTHER -> c

Lower(c) ==
    CASE c = "K" -> "k" [] c = "M" -> "m" [] c = "B" -> "b" [] c = "A" -> "a"
      [] c = "N" -> "n" [] OTHER -> c

\* str.replace(c, '') for every c in cs
Remove(str, cs) == SelectSeq(str, LAMBDA c : c \notin cs)

\* str.strip()
RECURSIVE Strip(_)
Strip(str) ==
    IF str = <<>> THEN str
    ELSE IF Head(str) = " " THEN Strip(Tail(str))
    ELSE IF str[Len(str)] = " " THEN Strip(SubSeq(str, 1, Len(str) - 1))
    ELSE str

\* the integer written by a sequence of digits
RECURSIVE DigitsValue(_)
DigitsValue(ds) ==
    IF ds = <<>> THEN 0
    ELSE 10 * DigitsValue(SubSeq(ds, 1, Len(ds) - 1)) + DigitVal(ds[Len(ds)])

\* A float is [kind, num, dec, exp]: kind "num" is num * 10^(exp - dec), with
\* no trailing zero counted in dec; kind "nan" is float('nan').
NaN == [kind |-> "nan", num |-> 0, dec |-> 0, exp |-> 0]

RECURSIVE Normal(_, _)
Normal(num, dec) ==
    IF dec > 0 /\ num % 10 = 0 THEN Normal(num \div 10, dec - 1)
    ELSE [kind |-> "num", num |-> num, dec |-> dec, exp |-> 0]

\* Python's float(str): surrounding whitespace is ignored; an optional sign,
\* then "nan" in any case or a decimal numeral with at most one point and at
\* least one digit.  exc is the ValueError.
py_float(str) ==
    LET t      == Strip(str)
        signed == t /= <<>> /\ t[1] \in {"-", "+"}
        body   == IF signed THEN Tail(t) ELSE t
        sign   == IF signed /\ t[1] = "-" THEN 0 - 1 ELSE 1
        points == {i \in 1..Len(body) : body[i] = "."}
        digits == Remove(body, {"."})
    IN  IF [i \in 1..Len(body) |-> Lower(body[i])] = <<"n", "a", "n">>
        THEN [exc |-> FALSE, value |-> NaN]
        ELSE IF /\ Cardinality(points) <= 1
                /\ digits /= <<>>
                /\ \A i \in 1..Len(digits) : digits[i] \in Digits
        THEN [exc |-> FALSE,
              value |-> Normal(sign * DigitsValue(digits),
                               IF points = {} THEN 0
                               ELSE Len(body) - (CHOOSE i \in points : TRUE))]
        ELSE [exc |-> TRUE, value |-> NaN]

\* number * multiplier, the multiplier a power of ten
TimesPow10(value, e) ==
    [value EXCEPT !.exp = IF value.kind = "nan" \/ value.num = 0 THEN 0 ELSE @ + e]

\* multipliers = {'K': 1000, 'M': 1000000, 'B': 1000000000}, as powers of ten
Multipliers == <<[suffix |-> "K", exp |-> 3], [suffix |-> "M", exp |-> 6],
                 [suffix |-> "B", exp |-> 9]>>

\* parse_financial_value with the suffix compared as written (no upper())
parse_financial_value_case_sensitive(value_str) ==
    IF value_str = <<>> THEN [exc |-> FALSE, value |-> None]
    ELSE
    LET cleaned == Strip(Remove(value_str, {"$", ","}))
        hits == {i \in 1..Len(Multipliers) :
                    /\ cleaned /= <<>>
                    /\ cleaned[Len(cleaned)] = Multipliers[i].suffix
                    /\ ~py_float(SubSeq(cleaned, 1, Len(cleaned) - 1)).exc}
    IN  IF hits /= {}
        THEN LET i == CHOOSE j \in hits : \A k \in hits : j <= k
             IN  [exc |-> FALSE,
                  value |-> Some(TimesPow10(py_float(SubSeq(cleaned, 1, Len(cleaned) - 1)).value,
                                            Multipliers[i].exp))]
        ELSE IF py_float(cleaned).exc THEN [exc |-> FALSE, value |-> None]
             ELSE [exc |-> FALSE, value |-> Some(py_float(cleaned).value)]

\* parse_financial_value: None for a falsy argument; '$' and ',' removed and
\* the rest stripped; the first suffix of K, M, B that the upper-cased string
\* ends with and whose prefix float() accepts gives prefix * multiplier (a
\* ValueError moves on to the next suffix); else float() of the whole, None on
\* ValueError.  exc is an exception that leaves the method.
parse_financial_value(value_str) ==
    IF value_str = <<>> THEN [exc |-> FALSE, value |-> None]
    ELSE
    LET cleaned == Strip(Remove(value_str, {"$", ","}))
        hits == {i \in 1..Len(Multipliers) :
                    /\ cleaned /= <<>>
                    /\ Upper(cleaned[Len(cleaned)]) = Multipliers[i].suffix
                    /\ ~py_float(SubSeq(cleaned, 1, Len(cleaned) - 1)).exc}
    IN  IF hits /= {}
        THEN LET i == CHOOSE j \in hits : \A k \in hits : j <= k
             IN  [exc |-> FALSE,
                  value |-> Some(TimesPow10(py_float(SubSeq(cleaned, 1, Len(cleaned) - 1)).value,
                                            Multipliers[i].exp))]
        ELSE IF py_float(cleaned).exc THEN [exc |-> FALSE, value |-> None]
             ELSE [exc |-> FALSE, value |-> Some(py_float(cleaned).value)]

\* the keys of financial_patterns
METRIC_TYPES ==
    {"revenue", "funding", "valuation", "market_size", "customers", "team_size",
     "growth_rate"}

RECURSIVE Pow10(_)
Pow10(n) == IF n <= 0 THEN 1 ELSE 10 * Pow10(n - 1)

\* a float as a count of thousands (money in thousands of USD)
InThousands(value) ==
    IF value.exp - value.dec >= 3
    THEN value.num * Pow10(value.exp - value.dec - 3)
    ELSE value.num \div Pow10(3 - (value.exp - value.dec))

\* truthiness of parse_financial_value's result: None and 0.0 are falsy
TruthyFloat(o) == IsSome(o) /\ (TheVal(o).kind = "nan" \/ TheVal(o).num /= 0)

\* np.median of a non-empty list of numbers
np_median(values) ==
    LET sorted == SortSeq(values, LAMBDA a, b : a < b)
        n      == Len(sorted)
    IN  IF n % 2 = 1 THEN sorted[(n + 1) \div 2]
        ELSE (sorted[n \div 2] + sorted[n \div 2 + 1]) \div 2

\* the parsed values kept by the loop over the matches: `if parsed_value:`
RECURSIVE KeptValues(_)
KeptValues(matches) ==
    IF matches = <<>> THEN <<>>
    ELSE LET parsed_value == parse_financial_value(Head(matches)).value
         IN  (IF TruthyFloat(parsed_value) THEN <<InThousands(TheVal(parsed_value))>>
              ELSE <<>>)
             \o KeptValues(Tail(matches))

\* extract_financial_metrics from the point where re.findall has run:
\* matches[t] are the strings the patterns of metric type t captured, in the
\* order of the patterns and of the text.
extract_financial_metrics(matches) ==
    [t \in {u \in METRIC_TYPES : KeptValues(matches[u]) /= <<>>} |->
        np_median(KeptValues(matches[t]))]

\* Python truthiness of an Optional number, or of an Optional string kept by
\* its length: None, 0 and "" are falsy.
Truthy(o) == IsSome(o) /\ TheVal(o) /= 0

\* Python's `a or b`
Or(a, b) == IF Truthy(a) THEN a ELSE b

\* dict.get(key) with no default: an Optional
GetOpt(d, k) == IF k \in DOMAIN d THEN Some(d[k]) ELSE None

\* ExtractedFinancialData(): every optional field None, both scores 0.0
EmptyFinancialData ==
    [ current_revenue       |-> None,
      projected_revenue_y1  |-> None,
      projected_revenue_y3  |-> None,
      revenue_growth_rate   |-> None,
      funding_requested     |-> None,
      funding_to_date       |-> None,
      valuation             |-> None,
      gross_margin          |-> None,
      burn_rate             |-> None,
      runway_months         |-> None,
      market_size_tam       |-> None,
      market_size_sam       |-> None,
      team_size             |-> None,
      customers             |-> None,
      business_model        |-> None,
      extraction_confidence |-> 0,
      completeness_score    |-> 0 ]

KEY_FIELDS ==
    << "current_revenue", "projected_revenue_y1", "funding_requested",
       "market_size_tam", "team_size", "business_model" >>

REVENUE_CONFIDENCE        == 900
MARKET_SIZE_CONFIDENCE    == 800
FUNDING_CONFIDENCE        == 850
BUSINESS_MODEL_CONFIDENCE == 700
NO_DATA_CONFIDENCE        == 300

\* calculate_confidence_scores counting a key field as completed when it is
\* truthy (a revenue of 0 and an empty business model count as missing)
calculate_confidence_scores_truthy_completeness(data) ==
    LET completed_fields ==
            Cardinality({i \in 1..Len(KEY_FIELDS) : Truthy(data[KEY_FIELDS[i]])})
        confidence_factors ==
               (IF data.current_revenue /= None THEN <<REVENUE_CONFIDENCE>> ELSE <<>>)
            \o (IF data.market_size_tam /= None THEN <<MARKET_SIZE_CONFIDENCE>> ELSE <<>>)
            \o (IF data.funding_requested /= None THEN <<FUNDING_CONFIDENCE>> ELSE <<>>)
            \o (IF Truthy(data.business_model) THEN <<BUSINESS_MODEL_CONFIDENCE>> ELSE <<>>)
    IN  << IF confidence_factors /= <<>>
           THEN SumSeq(confidence_factors) \div Len(confidence_factors)
           ELSE NO_DATA_CONFIDENCE,
           (completed_fields * Milli) \div Len(KEY_FIELDS) >>

\* calculate_confidence_scores: <<extraction_confidence, completeness_score>>
calculate_confidence_scores(data) ==
    LET completed_fields ==
            Cardinality({i \in 1..Len(KEY_FIELDS) : data[KEY_FIELDS[i]] /= None})
        completeness_score == (completed_fields * Milli) \div Len(KEY_FIELDS)
        confidence_factors ==
               (IF data.current_revenue /= None THEN <<REVENUE_CONFIDENCE>> ELSE <<>>)
            \o (IF data.market_size_tam /= None THEN <<MARKET_SIZE_CONFIDENCE>> ELSE <<>>)
            \o (IF data.funding_requested /= None THEN <<FUNDING_CONFIDENCE>> ELSE <<>>)
            \o (IF Truthy(data.business_model) THEN <<BUSINESS_MODEL_CONFIDENCE>> ELSE <<>>)
        extraction_confidence ==
            IF confidence_factors /= <<>>
            THEN SumSeq(confidence_factors) \div Len(confidence_factors)
            ELSE NO_DATA_CONFIDENCE
    IN  <<extraction_confidence, completeness_score>>

\* extract_financial_data from the point where the text and the per-source
\* metrics are in hand.  src.regex is extract_financial_metrics' dict,
\* src.table_revenue the table-derived median, src.ai_* the parsed AI answers,
\* src.business_model the first truthy of smart/AI/text business model.
extract_financial_data(src) ==
    IF ~src.has_text THEN EmptyFinancialData
    ELSE
    LET current_revenue   == Or(Or(GetOpt(src.regex, "revenue"), src.table_revenue),
                                src.ai_revenue)
        funding_requested == Or(GetOpt(src.regex, "funding"), src.ai_funding)
        market_size_tam   == Or(GetOpt(src.regex, "market_size"), src.ai_market_size)
        team_size         == IF Truthy(GetOpt(src.regex, "team_size"))
                             THEN GetOpt(src.regex, "team_size") ELSE None
        customers         == IF Truthy(GetOpt(src.regex, "customers"))
                             THEN GetOpt(src.regex, "customers") ELSE None
        growth            == IF Truthy(GetOpt(src.regex, "growth_rate"))
                             THEN GetOpt(src.regex, "growth_rate") ELSE None
        derived           == Truthy(current_revenue) /\ Truthy(growth)
        y1                == IF derived
                             THEN Some((TheVal(current_revenue) * (Cent + TheVal(growth)))
                                       \div Cent)
                             ELSE None
        y3                == IF derived
                             THEN Some((((TheVal(y1) * (Cent + TheVal(growth))) \div Cent)
                                        * (Cent + TheVal(growth))) \div Cent)
                             ELSE None
        data == [ EmptyFinancialData EXCEPT
                    !.current_revenue      = current_revenue,
                    !.funding_requested    = funding_requested,
                    !.valuation            = GetOpt(src.regex, "valuation"),
                    !.market_size_tam      = market_size_tam,
                    !.team_size            = team_size,
                    !.customers            = customers,
                    !.revenue_growth_rate  = growth,
                    !.business_model       = src.business_model,
                    !.projected_revenue_y1 = y1,
                    !.projected_revenue_y3 = y3 ]
        scores == calculate_confidence_scores(data)
    IN  [ data EXCEPT !.extraction_confidence = scores[1],
                      !.completeness_score    = scores[2] ]

-----------------------------------------------------------------------------
(* ProductionMLPipeline: the steps of analyze_startup                       *)

PIPELINE_VERSION == "2.0.0"

\* the integer kept in a feature dict for a string value
StrId(str) ==
    CASE str = ""           -> 0
      [] str = "Technology" -> 1
      [] str = "Acme"       -> 2
      [] str = "Acme AI"    -> 3
      [] str = "Fintech"    -> 4
      [] str = "AI credit underwriting" -> 5

\* Python's `opt or default` for an Optional string
StrOr(opt, default) == IF IsSome(opt) /\ TheVal(opt) /= "" THEN TheVal(opt) ELSE default

\* a one-key dict, present only when `cond`
Entry(cond, k, v) == IF cond THEN [x \in {k} |-> v] ELSE EmptyDict

\* _convert_pdf_to_ml_features
convert_pdf_to_ml_features(pdf_data) ==
    LET cur   == pdf_data.current_revenue
        y1    == pdf_data.projected_revenue_y1
        grow  == IF Truthy(cur) /\ Truthy(y1)
                 THEN (TheVal(y1) * Cent) \div TheVal(cur) - Cent ELSE 0
        ready == IF Truthy(cur) /\ TheVal(cur) > 0 THEN 80
                 ELSE IF Truthy(pdf_data.customers) /\ TheVal(pdf_data.customers) > 0 THEN 60
                 ELSE 40
        V(f)  == TheVal(pdf_data[f])
        parts ==
          << Entry(Truthy(cur), "revenue", V("current_revenue")),
             Entry(Truthy(cur), "current_revenue_usd", V("current_revenue")),
             Entry(Truthy(y1), "projected_revenue_y1", V("projected_revenue_y1")),
             Entry(Truthy(pdf_data.projected_revenue_y3), "projected_revenue_y3",
                   V("projected_revenue_y3")),
             Entry(Truthy(cur) /\ Truthy(y1), "growth_rate", grow),
             Entry(Truthy(cur) /\ Truthy(y1), "revenue_growth_rate", grow),
             Entry(Truthy(pdf_data.funding_requested), "funding_total", V("funding_requested")),
             Entry(Truthy(pdf_data.funding_requested), "funding_total_usd",
                   V("funding_requested")),
             Entry(Truthy(pdf_data.funding_to_date), "funding_rounds", 1),
             Entry(Truthy(pdf_data.market_size_tam), "market_size",
                   V("market_size_tam") \div 100000),
             Entry(Truthy(pdf_data.market_size_tam), "market_size_billions",
                   V("market_size_tam") \div 100000),
             Entry(Truthy(pdf_data.market_size_sam), "addressable_market_billions",
                   V("market_size_sam") \div 10000),
             Entry(Truthy(pdf_data.team_size), "team_size", V("team_size")),
             Entry(Truthy(pdf_data.customers), "customers", V("customers")),
             Entry(Truthy(pdf_data.customers), "user_traction_score",
                   Min(V("customers") \div 100, Cent)),
             Entry(Truthy(pdf_data.gross_margin), "gross_margin_percent", V("gross_margin")),
             Entry(Truthy(pdf_data.burn_rate), "burn_rate_monthly", V("burn_rate")),
             Entry(Truthy(pdf_data.runway_months), "runway_months", V("runway_months")),
             Entry(Truthy(pdf_data.business_model), "business_model", V("business_model")),
             Entry(Truthy(pdf_data.business_model), "business_model_clarity",
                   Min(V("business_model"), Cent)),
             [x \in {"product_readiness_score"} |-> ready],
             [x \in {"extraction_confidence"} |-> pdf_data.extraction_confidence],
             [x \in {"data_completeness"} |-> pdf_data.completeness_score] >>
        keys == UNION {DOMAIN parts[i] : i \in 1..Len(parts)}
    IN  [k \in keys |-> LET i == CHOOSE j \in 1..Len(parts) : k \in DOMAIN parts[j]
                        IN  parts[i][k]]

\* extract_features_from_pdf: any exception of the extractor or the converter
\* is caught and answered with (ExtractedFinancialData(), {}).
extract_features_from_pdf(src) ==
    IF src.raises
    THEN [exc |-> FALSE, pdf_data |-> EmptyFinancialData, pdf_features |-> EmptyDict]
    ELSE LET pdf_data == extract_financial_data(src)
         IN  [exc |-> FALSE, pdf_data |-> pdf_data,
              pdf_features |-> convert_pdf_to_ml_features(pdf_data)]

\* run_agent_analysis: None without an orchestrator or when the orchestrator
\* raises, else {'agent_results': ..., 'processing_time': ...}
run_agent_analysis(orchestrator, agent) ==
    IF orchestrator = "none" THEN [exc |-> FALSE, agent_analysis |-> None]
    ELSE IF agent.raises THEN [exc |-> FALSE, agent_analysis |-> None]
    ELSE [exc |-> FALSE,
          agent_analysis |-> Some([k \in {"agent_results", "processing_time"} |->
                                      IF k = "agent_results" THEN agent.results ELSE 0])]

\* the prediction run_ml_prediction returns when the predictor raises
ErrorPrediction ==
    [ success_probability       |-> 500,
      success_category          |-> "Unknown",
      confidence_interval       |-> <<300, 700>>,
      investment_recommendation |-> "WATCH",
      market_score              |-> 5000,
      team_score                |-> 5000,
      product_score             |-> 5000,
      business_model_score      |-> 5000,
      financial_score           |-> 5000,
      risk_score                |-> 5000,
      model_confidence          |-> 300,
      model_version             |-> "error",
      feature_count             |-> 0 ]

\* the skipped-step prediction taken to be the predictor-failure default
SkippedPrediction_as_error(features) == ErrorPrediction

\* the prediction analyze_startup builds when use_ml_prediction is off
SkippedPrediction(features) ==
    [ success_probability       |-> 500,
      success_category          |-> "Analysis Skipped",
      confidence_interval       |-> <<400, 600>>,
      investment_recommendation |-> "WATCH",
      market_score              |-> 5000,
      team_score                |-> 5000,
      product_score             |-> 5000,
      business_model_score      |-> 5000,
      financial_score           |-> 5000,
      risk_score                |-> 5000,
      model_confidence          |-> 500,
      model_version             |-> PIPELINE_VERSION,
      feature_count             |-> Cardinality(DOMAIN features) ]

\* run_ml_prediction without its try/except: the predictor's exception escapes
run_ml_prediction_uncaught(features, ml) ==
    [exc |-> ml.raises,
     prediction |-> predict_startup_success(features, ml.p,
                                            ml.individual_predictions, MODEL_VERSION)]

\* run_ml_prediction: the predictor's result, or ErrorPrediction when it raises
run_ml_prediction(features, ml) ==
    IF ml.raises
    THEN [exc |-> FALSE, prediction |-> ErrorPrediction]
    ELSE [exc |-> FALSE,
          prediction |-> predict_startup_success(features, ml.p,
                                                 ml.individual_predictions, MODEL_VERSION)]

DEFAULT_COMPLETENESS == 500

\* combine_analysis_results with every agent answer counted as a confidence of 1
combine_analysis_results_counting_agents(ml_prediction, pdf_data, agent_analysis) ==
    LET confidence_scores ==
               <<ml_prediction.model_confidence>>
            \o (IF IsSome(pdf_data) THEN <<TheVal(pdf_data).extraction_confidence>> ELSE <<>>)
            \o (IF IsSome(agent_analysis) THEN <<Milli>> ELSE <<>>)
    IN  << SumSeq(confidence_scores) \div Len(confidence_scores),
           IF IsSome(pdf_data) THEN TheVal(pdf_data).completeness_score
           ELSE DEFAULT_COMPLETENESS >>

\* combine_analysis_results: <<overall_confidence, data_completeness>>
combine_analysis_results(ml_prediction, pdf_data, agent_analysis) ==
    LET confidence_scores ==
               <<ml_prediction.model_confidence>>
            \o (IF IsSome(pdf_data) THEN <<TheVal(pdf_data).extraction_confidence>> ELSE <<>>)
            \o (IF IsSome(agent_analysis) /\ "confidence" \in DOMAIN TheVal(agent_analysis)
                THEN <<TheVal(agent_analysis)["confidence"]>> ELSE <<>>)
        completeness_scores ==
            IF IsSome(pdf_data) THEN <<TheVal(pdf_data).completeness_score>> ELSE <<>>
    IN  << SumSeq(confidence_scores) \div Len(confidence_scores),
           IF completeness_scores /= <<>>
           THEN SumSeq(completeness_scores) \div Len(completeness_scores)
           ELSE DEFAULT_COMPLETENESS >>

-----------------------------------------------------------------------------
(* ProductionMLPipeline.analyze_startup                                     *)

\* the argument of run_ml_prediction with the agent result merged into it
prediction_input_with_agent_result(ml_features_, agent_analysis) ==
    IF IsSome(agent_analysis) THEN Update(ml_features_, TheVal(agent_analysis))
    ELSE ml_features_

\* the argument analyze_startup hands to run_ml_prediction: the working
\* feature dict, whatever the agent step returned
prediction_input(ml_features_, agent_analysis) == ml_features_

\* analyze_startup on `input`, whose manual_data is the dict object
\* `input.manual_data` (an Optional), in the environment `env`:
\*   env.pdf    what the PDF at pdf_path gives the extractor
\*   env.agent  what the agent orchestrator does
\*   env.ml     what the predictor does
\* Gives the call's outcome, the final working dict, what was handed to the
\* predictor, and the result.
analyze_startup(input, env, agents_available, orchestrator) ==
    LET \* ml_features = input_data.manual_data or {}
        aliased == IsSome(input.manual_data) /\ DOMAIN TheVal(input.manual_data) /= {}
        f0 == IF aliased THEN TheVal(input.manual_data) ELSE EmptyDict
        \* ml_features.update({company_name, industry, description})
        f1 == Update(f0,
                [k \in {"company_name", "industry", "description"} |->
                    CASE k = "company_name" -> StrId(input.company_name)
                      [] k = "industry"     -> StrId(StrOr(input.industry, "Technology"))
                      [] k = "description"  -> StrId(StrOr(input.description, ""))])
        \* Step 1
        do_pdf  == input.use_pdf_extraction /\ IsSome(input.pdf_path)
        step1   == extract_features_from_pdf(env.pdf)
        pdf_ok  == do_pdf /\ ~step1.exc
        pdf_data == IF pdf_ok THEN Some(step1.pdf_data) ELSE None
        f2      == IF pdf_ok THEN Update(f1, step1.pdf_features) ELSE f1
        used1   == IF pdf_ok THEN <<"PDF_EXTRACTION">> ELSE <<>>
        \* Step 2
        do_agents == input.use_ai_agents /\ agents_available
        step2     == run_agent_analysis(orchestrator, env.agent)
        agents_ok == do_agents /\ ~step2.exc
        agent_analysis == IF agents_ok THEN step2.agent_analysis ELSE None
        used2     == IF agents_ok THEN used1 \o <<"AI_AGENTS">> ELSE used1
        \* Step 3
        do_ml   == input.use_ml_prediction
        f3      == prediction_input(f2, agent_analysis)
        step3   == run_ml_prediction(f3, env.ml)
        raised  == do_ml /\ step3.exc
        ml_prediction == IF do_ml THEN step3.prediction ELSE SkippedPrediction(f2)
        used3   == IF do_ml THEN used2 \o <<"ML_PREDICTION">> ELSE used2
        \* Step 4
        combined == combine_analysis_results(ml_prediction, pdf_data, agent_analysis)
    IN  [ outcome      |-> IF raised THEN "raised" ELSE "returned",
          aliased      |-> aliased,
          ml_features  |-> f2,
          startup_data |-> IF do_ml THEN Some(f3) ELSE None,
          counted      |-> ~raised,
          result       |->
              IF raised THEN None
              ELSE Some([ company_name       |-> input.company_name,
                          ml_prediction      |-> ml_prediction,
                          pdf_data           |-> pdf_data,
                          agent_analysis     |-> agent_analysis,
                          pipeline_version   |-> PIPELINE_VERSION,
                          components_used    |-> used3,
                          overall_confidence |-> combined[1],
                          data_completeness  |-> combined[2] ]) ]

-----------------------------------------------------------------------------
(* Inputs and environments of the pipeline specification                    *)

MaxAnalyses == 2         \* analyze_startup calls made on the one pipeline

\* manual_data dicts a caller passes (money in KUSD, market size in tenths of
\* a billion)
ManualScenario ==
    [k \in {"revenue", "market_size_billions", "team_size"} |->
        CASE k = "revenue" -> 1000 [] k = "market_size_billions" -> 50 [] k = "team_size" -> 10]

ManualOverrides ==
    [k \in {"revenue", "market_size", "team_size", "funding_total"} |->
        CASE k = "revenue" -> 500 [] k = "market_size" -> 20
          [] k = "team_size" -> 8 [] k = "funding_total" -> 2000]

ManualChoices == {EmptyDict, ManualScenario, ManualOverrides}

Identities ==
    { [company_name |-> "", industry |-> None, description |-> None],
      [company_name |-> "Acme AI", industry |-> Some("Fintech"),
       description |-> Some("AI credit underwriting")] }

PdfPaths == {None, Some("/does/not/exist"), Some("deck.pdf")}

\* a file that gives no text: both text extractors fail or find nothing
NoTextSource ==
    [ raises |-> FALSE, has_text |-> FALSE, regex |-> EmptyDict,
      table_revenue |-> None, ai_revenue |-> None, ai_funding |-> None,
      ai_market_size |-> None, business_model |-> None ]

\* an extractor that raises (a failure the extractor itself does not absorb)
RaisingSource == [NoTextSource EXCEPT !.raises = TRUE]

\* text with no metric in it
BareSource == [NoTextSource EXCEPT !.has_text = TRUE]

\* a deck that states every metric
FullSource ==
    [ BareSource EXCEPT
        !.regex = [k \in {"revenue", "funding", "market_size", "team_size",
                          "customers", "growth_rate"} |->
                     CASE k = "revenue" -> 2000 [] k = "funding" -> 3000
                       [] k = "market_size" -> 5000000 [] k = "team_size" -> 12
                       [] k = "customers" -> 5000 [] k = "growth_rate" -> 50],
        !.business_model = Some(40) ]

\* a deck whose revenue comes from a table and whose funding from the AI answer
PartialSource ==
    [ BareSource EXCEPT
        !.regex = [k \in {"customers", "valuation"} |->
                     CASE k = "customers" -> 20000 [] k = "valuation" -> 10000],
        !.table_revenue = Some(750),
        !.ai_funding = Some(1500) ]

PdfSourcesAt(path) ==
    IF path = Some("deck.pdf")
    THEN {RaisingSource, NoTextSource, BareSource, FullSource, PartialSource}
    ELSE {NoTextSource}

AgentOutcomes ==
    { [raises |-> TRUE,  results |-> 0],
      [raises |-> FALSE, results |-> 1],
      [raises |-> FALSE, results |-> 2] }

\* what the fitted models answer in a pipeline call
RaisingModel == [raises |-> TRUE, p |-> 0, individual_predictions |-> <<0, 0, 0>>]

ModelOutputs ==
    { [raises |-> FALSE, p |-> 0,    individual_predictions |-> <<0, 0, 100>>],
      [raises |-> FALSE, p |-> 400,  individual_predictions |-> <<0, 400, 1000>>],
      [raises |-> FALSE, p |-> 550,  individual_predictions |-> <<500, 550, 600>>],
      [raises |-> FALSE, p |-> 700,  individual_predictions |-> <<700, 700, 700>>],
      [raises |-> FALSE, p |-> 1000, individual_predictions |-> <<900, 1000, 1000>>] }

\* what each step of the call met: "skipped", "failed" or "ok"
StepsOf(input, env, agents_available, orchestrator) ==
    [ pdf    |-> IF ~(input.use_pdf_extraction /\ IsSome(input.pdf_path)) THEN "skipped"
                 ELSE IF env.pdf.raises \/ ~env.pdf.has_text THEN "failed" ELSE "ok",
      agents |-> IF ~(input.use_ai_agents /\ agents_available) THEN "skipped"
                 ELSE IF orchestrator = "none" \/ env.agent.raises THEN "failed" ELSE "ok",
      ml     |-> IF ~input.use_ml_prediction THEN "skipped"
                 ELSE IF env.ml.raises THEN "failed" ELSE "ok" ]

NoSteps == [pdf |-> "skipped", agents |-> "skipped", ml |-> "skipped"]

\* the environment of a call that asks nothing of it
NoEnv == [pdf |-> NoTextSource, agent |-> [raises |-> FALSE, results |-> 0],
          ml |-> RaisingModel]

-----------------------------------------------------------------------------
(* The pipeline specification: calls of analyze_startup, one after another  *)

Init ==
    /\ AGENTS_AVAILABLE \in BOOLEAN
    /\ agent_orchestrator \in (IF AGENTS_AVAILABLE THEN {"none", "ready"} ELSE {"none"})
    /\ analysis_count = 0
    /\ total_processing_time = 0
    /\ analysis_cache = EmptyDict
    /\ background_tasks = EmptyDict
    /\ predictor_call = NoCall
    /\ model_file = None
    /\ pc = "idle"
    /\ input_data = None
    /\ manual_obj = None
    /\ ml_features = EmptyDict
    /\ startup_data = None
    /\ steps = NoSteps
    /\ call_env = NoEnv
    /\ extractor_call = NoCall
    /\ outcome = "none"
    /\ result = None
    /\ prediction = None
    /\ is_trained = FALSE
    /\ artifact = InitArtifact
    /\ train_count = 0
    /\ callers = <<>>

\* A caller runs analyze_startup to its end.
AnalyzeStartup ==
    /\ pc = "idle"
    /\ analysis_count < MaxAnalyses
    /\ \E id \in Identities, path \in PdfPaths,
          use_pdf \in BOOLEAN, use_agents \in BOOLEAN, use_ml \in BOOLEAN,
          manual \in (IF IsSome(manual_obj) THEN {manual_obj}
                      ELSE {None} \cup {Some(m) : m \in ManualChoices}) :
        LET input == [ company_name       |-> id.company_name,
                       industry           |-> id.industry,
                       description        |-> id.description,
                       pdf_path           |-> path,
                       manual_data        |-> manual,
                       use_pdf_extraction |-> use_pdf,
                       use_ai_agents      |-> use_agents,
                       use_ml_prediction  |-> use_ml ]
        IN  \E src \in (IF use_pdf /\ IsSome(path) THEN PdfSourcesAt(path) ELSE {NoTextSource}),
               agent \in (IF use_agents /\ AGENTS_AVAILABLE /\ agent_orchestrator = "ready"
                          THEN AgentOutcomes ELSE {[raises |-> FALSE, results |-> 0]}),
               ml \in (IF use_ml THEN ModelOutputs \cup {RaisingModel} ELSE {RaisingModel}) :
            LET env  == [pdf |-> src, agent |-> agent, ml |-> ml]
                lazy == use_ml /\ ~is_trained
                \* time.time() - start_time: every call lasts one unit of time
                processing_time == 1
            IN  \E call \in {analyze_startup(input, env, AGENTS_AVAILABLE, agent_orchestrator)} :
                /\ input_data' = Some(input)
                /\ manual_obj' = IF call.aliased THEN Some(call.ml_features) ELSE manual
                /\ ml_features' = call.ml_features
                /\ startup_data' = call.startup_data
                /\ steps' = StepsOf(input, env, AGENTS_AVAILABLE, agent_orchestrator)
                /\ call_env' = env
                /\ outcome' = call.outcome
                /\ result' = call.result
                /\ analysis_count' = IF call.counted THEN analysis_count + 1
                                     ELSE analysis_count
                /\ total_processing_time' = IF call.counted
                                            THEN total_processing_time + processing_time
                                            ELSE total_processing_time
                /\ is_trained' = (is_trained \/ use_ml)
                /\ artifact' = IF lazy THEN train_ensemble_model(artifact, train_count + 1)
                               ELSE artifact
                /\ train_count' = IF lazy THEN train_count + 1 ELSE train_count
    /\ pc' = "returned"
    /\ UNCHANGED <<AGENTS_AVAILABLE, agent_orchestrator, extractor_call, prediction,
                   callers, analysis_cache, background_tasks, predictor_call, model_file>>

\* The caller takes the result and is ready to call again.
TakeResult ==
    /\ pc = "returned"
    /\ pc' = "idle"
    /\ input_data' = None
    /\ ml_features' = EmptyDict
    /\ startup_data' = None
    /\ steps' = NoSteps
    /\ call_env' = NoEnv
    /\ outcome' = "none"
    /\ result' = None
    /\ UNCHANGED <<AGENTS_AVAILABLE, agent_orchestrator, analysis_count, extractor_call,
                   prediction, is_trained, artifact, train_count, callers,
                   total_processing_time, analysis_cache, background_tasks,
                   predictor_call, model_file>>

\* ... and passes the same manual_data dict object to its next call
CallerKeepsManualData ==
    /\ TakeResult
    /\ IsSome(manual_obj)
    /\ UNCHANGED manual_obj

\* ... and makes a new input for its next call
CallerDropsManualData ==
    /\ TakeResult
    /\ manual_obj' = None

Next == AnalyzeStartup \/ CallerKeepsManualData \/ CallerDropsManualData

Spec == Init /\ [][Next]_vars

-----------------------------------------------------------------------------
(* The predictor specification: predict_startup_success called directly on  *)
(* one input dict drawn from the documented ranges                          *)

\* input keys holding a 0-1 score (hundredths)
ScoreKeys ==
    { "competitive_advantage", "team_technical_score", "team_business_score",
      "advisor_quality", "product_readiness", "tech_differentiation", "user_traction",
      "pmf_score", "business_model_clarity", "revenue_model_strength", "scalability",
      "gtm_score", "market_risk", "tech_risk", "team_risk", "financial_risk",
      "regulatory_risk" }

\* input keys holding a magnitude
MagnitudeKeys ==
    { "competition_level", "market_size", "market_growth_rate", "founder_experience",
      "revenue", "projected_revenue_y1", "runway_months", "gross_margin" }

\* the values tried for a key: the ends of its documented range and, for the
\* saturating terms, a value past the saturation point
RangeOf(k) ==
    CASE k \in ScoreKeys            -> {0, 100}
      [] k = "competition_level"    -> {1, 5}
      [] k = "market_size"          -> {0, 5, 50, 200}
      [] k = "market_growth_rate"   -> {0, 30}
      [] k = "founder_experience"   -> {0, 20}
      [] k = "revenue"              -> {0, 1000, 5000}
      [] k = "projected_revenue_y1" -> {0, 20000}
      [] k = "runway_months"        -> {0, 36}
      [] k = "gross_margin"         -> {0, 100}

Lowest(S)  == CHOOSE x \in S : \A y \in S : x <= y
Highest(S) == CHOOSE x \in S : \A y \in S : x >= y

AllLowest  == [k \in ScoreKeys \cup MagnitudeKeys |-> Lowest(RangeOf(k))]
AllHighest == [k \in ScoreKeys \cup MagnitudeKeys |-> Highest(RangeOf(k))]

\* the all-defaults dict, the two corner dicts, and each of them with one key set
PredictInputs ==
    {EmptyDict, AllLowest, AllHighest}
    \cup UNION { { Update(base, [x \in {k} |-> v]) :
                     base \in {EmptyDict, AllLowest, AllHighest}, v \in RangeOf(k) } :
                 k \in ScoreKeys \cup MagnitudeKeys }

\* what the fitted ensemble and the three fitted base models may answer
Probabilities == {0, 399, 400, 699, 700, 1000}
BaseProbabilities == {0, 500, 1000}
IndividualPredictions ==
    { <<a, b, c>> : a \in BaseProbabilities, b \in BaseProbabilities,
                    c \in BaseProbabilities }

MaxTrainings == 2        \* explicit train_ensemble_model calls

InitPredict ==
    /\ AGENTS_AVAILABLE = FALSE
    /\ agent_orchestrator = "none"
    /\ analysis_count = 0
    /\ total_processing_time = 0
    /\ analysis_cache = EmptyDict
    /\ background_tasks = EmptyDict
    /\ predictor_call = NoCall
    /\ model_file = None
    /\ pc = "idle"
    /\ input_data = None
    /\ manual_obj = None
    /\ ml_features = EmptyDict
    /\ startup_data \in {Some(d) : d \in PredictInputs}
    /\ steps = NoSteps
    /\ call_env = NoEnv
    /\ extractor_call = NoCall
    /\ outcome = "none"
    /\ result = None
    /\ prediction = None
    /\ is_trained = FALSE
    /\ artifact = InitArtifact
    /\ train_count = 0
    /\ callers = <<>>

\* predictor.train_ensemble_model() called by the owner of the predictor
TrainEnsembleModel ==
    /\ pc = "idle"
    /\ train_count < MaxTrainings
    /\ artifact' = train_ensemble_model(artifact, train_count + 1)
    /\ is_trained' = TRUE
    /\ train_count' = train_count + 1
    /\ UNCHANGED <<pipelineVars, startup_data, prediction, callers>>

\* predictor.predict_startup_success(startup_data): trains first when the
\* predictor is not trained
PredictStartupSuccess ==
    /\ pc = "idle"
    /\ \E p \in Probabilities, individual_predictions \in IndividualPredictions :
         \E r \in {predict_startup_success(TheVal(startup_data), p,
                                           individual_predictions, MODEL_VERSION)} :
            prediction' = Some(r)
    /\ is_trained' = TRUE
    /\ artifact' = IF is_trained THEN artifact
                   ELSE train_ensemble_model(artifact, train_count + 1)
    /\ train_count' = IF is_trained THEN train_count ELSE train_count + 1
    /\ pc' = "returned"
    /\ UNCHANGED <<AGENTS_AVAILABLE, agent_orchestrator, analysis_count, input_data,
                   manual_obj, ml_features, steps, call_env, extractor_call, outcome,
                   result, startup_data, callers, total_processing_time,
                   analysis_cache, background_tasks, predictor_call, model_file>>

\* the caller takes the prediction and may predict the same input again
TakePrediction ==
    /\ pc = "returned"
    /\ pc' = "idle"
    /\ prediction' = None
    /\ UNCHANGED <<AGENTS_AVAILABLE, agent_orchestrator, analysis_count, input_data,
                   manual_obj, ml_features, steps, call_env, extractor_call, outcome,
                   result, startup_data, is_trained, artifact, train_count, callers,
                   total_processing_time, analysis_cache, background_tasks,
                   predictor_call, model_file>>

NextPredict == TrainEnsembleModel \/ PredictStartupSuccess \/ TakePrediction

SpecPredict == InitPredict /\ [][NextPredict]_vars

-----------------------------------------------------------------------------
(* The concurrency specification: callers of predict_startup_success on     *)
(* executor threads, sharing one untrained predictor                        *)

NumCallers == 2          \* concurrent callers

Threads == 1..NumCallers

InitConc ==
    /\ AGENTS_AVAILABLE = FALSE
    /\ agent_orchestrator = "none"
    /\ analysis_count = 0
    /\ total_processing_time = 0
    /\ analysis_cache = EmptyDict
    /\ background_tasks = EmptyDict
    /\ predictor_call = NoCall
    /\ model_file = None
    /\ pc = "idle"
    /\ input_data = None
    /\ manual_obj = None
    /\ ml_features = EmptyDict
    /\ startup_data = None
    /\ steps = NoSteps
    /\ call_env = NoEnv
    /\ extractor_call = NoCall
    /\ outcome = "none"
    /\ result = None
    /\ prediction = None
    /\ is_trained = FALSE
    /\ artifact = InitArtifact
    /\ train_count = 0
    /\ callers = [t \in Threads |-> [pc |-> "idle", run |-> 0, saw |-> InitArtifact]]

predictorConstVars ==
    <<pipelineVars, startup_data, prediction>>

\* run_in_executor starts analyze_startup on a pool thread; the thread reaches
\* predict_startup_success
SubmitCall(t) ==
    /\ callers[t].pc = "idle"
    /\ callers' = [callers EXCEPT ![t].pc = "check"]
    /\ UNCHANGED <<predictorConstVars, is_trained, artifact, train_count>>

\* `if not self.is_trained:` then enter train_ensemble_model, else go on
CheckTrained(t) ==
    /\ callers[t].pc = "check"
    /\ IF ~is_trained
       THEN /\ callers' = [callers EXCEPT ![t].pc = TRAIN_STEPS[1],
                                          ![t].run = train_count + 1]
            /\ train_count' = train_count + 1
       ELSE /\ callers' = [callers EXCEPT ![t].pc = "infer"]
            /\ UNCHANGED train_count
    /\ UNCHANGED <<predictorConstVars, is_trained, artifact>>

\* the next statement of train_ensemble_model that writes the predictor
TrainStatement(t) ==
    /\ \E i \in 1..Len(TRAIN_STEPS) :
        /\ callers[t].pc = TRAIN_STEPS[i]
        /\ artifact' = TrainStep(artifact, TRAIN_STEPS[i], callers[t].run)
        /\ is_trained' = (is_trained \/ TRAIN_STEPS[i] = "trained")
        /\ callers' = [callers EXCEPT ![t].pc = IF i < Len(TRAIN_STEPS)
                                               THEN TRAIN_STEPS[i + 1] ELSE "infer"]
    /\ UNCHANGED <<predictorConstVars, train_count>>

\* the rest of predict_startup_success: scale, predict_proba, build the result
Infer(t) ==
    /\ callers[t].pc = "infer"
    /\ callers' = [callers EXCEPT ![t].pc = "done", ![t].saw = artifact]
    /\ UNCHANGED <<predictorConstVars, is_trained, artifact, train_count>>

NextConc ==
    \E t \in Threads : SubmitCall(t) \/ CheckTrained(t) \/ TrainStatement(t) \/ Infer(t)

SpecConc == InitConc /\ [][NextConc]_vars

-----------------------------------------------------------------------------
(* The retraining specification: a predictor that is already trained and    *)
(* serving, with threads that retrain it, load a saved model into it, or    *)
(* predict, all on the one shared predictor object                          *)

\* The statements of load_model that write the predictor, in order.
LOAD_STEPS ==
    << "load_ensemble", "load_models", "load_scaler", "load_columns",
       "load_importance", "load_performance", "load_version", "load_trained" >>

\* One statement of load_model; the file holds the complete artifact `run`.
LoadStep(a, step, run) ==
    CASE step = "load_ensemble"    -> [a EXCEPT !.ensemble_model = run,
                                                !.ensemble_fitted = TRUE]
      [] step = "load_models"      ->
             [a EXCEPT !.models = [m \in DOMAIN InitArtifact.base_models |-> run]]
      [] step = "load_scaler"      -> [a EXCEPT !.feature_scaler = run]
      [] step = "load_columns"     -> [a EXCEPT !.feature_columns = run]
      [] step = "load_importance"  -> [a EXCEPT !.feature_importance = run]
      [] step = "load_performance" -> [a EXCEPT !.model_performance = run]
      [] step = "load_version"     -> [a EXCEPT !.model_version = MODEL_VERSION]
      [] step = "load_trained"     -> a

InitRetrain ==
    /\ AGENTS_AVAILABLE = FALSE
    /\ agent_orchestrator = "none"
    /\ analysis_count = 0
    /\ total_processing_time = 0
    /\ analysis_cache = EmptyDict
    /\ background_tasks = EmptyDict
    /\ predictor_call = NoCall
    /\ model_file = None
    /\ pc = "idle"
    /\ input_data = None
    /\ manual_obj = None
    /\ ml_features = EmptyDict
    /\ startup_data = None
    /\ steps = NoSteps
    /\ call_env = NoEnv
    /\ extractor_call = NoCall
    /\ outcome = "none"
    /\ result = None
    /\ prediction = None
    /\ is_trained = TRUE
    /\ artifact = train_ensemble_model(InitArtifact, 1)
    /\ train_count = 1
    /\ callers = [t \in Threads |-> [pc |-> "idle", run |-> 0, saw |-> InitArtifact]]

\* a thread calls train_ensemble_model() on the trained predictor (and predicts
\* once it is back)
StartRetrain(t) ==
    /\ callers[t].pc = "idle"
    /\ train_count < MaxTrainings
    /\ callers' = [callers EXCEPT ![t].pc = TRAIN_STEPS[1], ![t].run = train_count + 1]
    /\ train_count' = train_count + 1
    /\ UNCHANGED <<predictorConstVars, is_trained, artifact>>

\* a thread calls load_model(filepath): joblib.load gives a complete artifact
StartLoad(t) ==
    /\ callers[t].pc = "idle"
    /\ train_count < MaxTrainings
    /\ callers' = [callers EXCEPT ![t].pc = LOAD_STEPS[1], ![t].run = train_count + 1]
    /\ train_count' = train_count + 1
    /\ UNCHANGED <<predictorConstVars, is_trained, artifact>>

\* the next statement of load_model that writes the predictor
LoadStatement(t) ==
    /\ \E i \in 1..Len(LOAD_STEPS) :
        /\ callers[t].pc = LOAD_STEPS[i]
        /\ artifact' = LoadStep(artifact, LOAD_STEPS[i], callers[t].run)
        /\ is_trained' = (is_trained \/ LOAD_STEPS[i] = "load_trained")
        /\ callers' = [callers EXCEPT ![t].pc = IF i < Len(LOAD_STEPS)
                                               THEN LOAD_STEPS[i + 1] ELSE "infer"]
    /\ UNCHANGED <<predictorConstVars, train_count>>

NextRetrain ==
    \E t \in Threads :
        \/ StartRetrain(t) \/ StartLoad(t) \/ TrainStatement(t) \/ LoadStatement(t)
        \/ SubmitCall(t) \/ CheckTrained(t) \/ Infer(t)

SpecRetrain == InitRetrain /\ [][NextRetrain]_vars

-----------------------------------------------------------------------------
(* The extractor specification: the methods of ProductionPDFExtractor       *)
(* called one at a time on inputs drawn from bounded sets                   *)

MaxValueStrLen == 3      \* length of the strings given to parse_financial_value

\* the characters of those strings
Chars == {"$", ",", " ", "0", "2", "5", ".", "-", "K", "m", "B", "a", "n"}

\* every string over Chars up to the bound, and the documented examples
ValueStrings ==
    UNION { [1..n -> Chars] : n \in 0..MaxValueStrLen }
    \cup { <<"$", "2", ".", "5", "M">>, <<"1", ",", "2", "0", "0">>,
           <<"a", "b", "c">>, <<" ", "$", "1", ".", "5", "0", " ", "b", " ">> }

InitExtractor ==
    /\ AGENTS_AVAILABLE = FALSE
    /\ agent_orchestrator = "none"
    /\ analysis_count = 0
    /\ total_processing_time = 0
    /\ analysis_cache = EmptyDict
    /\ background_tasks = EmptyDict
    /\ predictor_call = NoCall
    /\ model_file = None
    /\ pc = "idle"
    /\ input_data = None
    /\ manual_obj = None
    /\ ml_features = EmptyDict
    /\ startup_data = None
    /\ steps = NoSteps
    /\ call_env = NoEnv
    /\ extractor_call = NoCall
    /\ outcome = "none"
    /\ result = None
    /\ prediction = None
    /\ is_trained = FALSE
    /\ artifact = InitArtifact
    /\ train_count = 0
    /\ callers = <<>>

extractorConstVars ==
    <<AGENTS_AVAILABLE, agent_orchestrator, analysis_count, pc, input_data, manual_obj,
      ml_features, startup_data, steps, call_env, outcome, result, prediction,
      is_trained, artifact, train_count, callers, total_processing_time,
      analysis_cache, background_tasks, predictor_call, model_file>>

\* extractor.parse_financial_value(value_str)
ParseFinancialValue ==
    /\ extractor_call.op = "none"
    /\ \E value_str \in ValueStrings :
         extractor_call' = [op |-> "parse_financial_value", arg |-> value_str,
                            ret |-> parse_financial_value(value_str)]
    /\ UNCHANGED extractorConstVars

\* the caller takes what the method returned
TakeExtracted ==
    /\ extractor_call.op /= "none"
    /\ extractor_call' = NoCall
    /\ UNCHANGED extractorConstVars

MaxMatches == 3          \* matches of one metric type's patterns in a text

\* what the patterns can capture in a text
MatchStrings ==
    { <<"$", "0">>, <<"$", "1", "M">>, <<"$", "2", "M">>, <<"$", "3", "M">>, <<",">> }

\* the matches per metric type: the revenue mentions vary, the text has one
\* funding mention or none, and no other metric
MatchesByType ==
    { [t \in METRIC_TYPES |->
          IF t = "revenue" THEN revenue ELSE IF t = "funding" THEN funding ELSE <<>>] :
      revenue \in UNION { [1..n -> MatchStrings] : n \in 0..MaxMatches },
      funding \in { <<>>, << <<"$", "2", "M">> >> } }

\* extractor.extract_financial_metrics(text)
ExtractFinancialMetrics ==
    /\ extractor_call.op = "none"
    /\ \E matches \in MatchesByType :
         extractor_call' = [op |-> "extract_financial_metrics", arg |-> matches,
                            ret |-> extract_financial_metrics(matches)]
    /\ UNCHANGED extractorConstVars

\* what the text, the tables and the AI answers of a document give
\* extract_financial_data.  The regex metrics are medians of non-zero matches,
\* the AI values are truthy; a table median can be 0.
ExtractorSources ==
    { [ raises |-> FALSE, has_text |-> has_text,
        regex |-> [k \in keys |->
                     CASE k = "revenue" -> 2000 [] k = "funding" -> 3000
                       [] k = "market_size" -> 5000000 [] k = "growth_rate" -> 50],
        table_revenue |-> table_revenue, ai_revenue |-> ai_revenue,
        ai_funding |-> ai_funding, ai_market_size |-> ai_market_size,
        business_model |-> business_model ] :
      has_text \in BOOLEAN,
      keys \in SUBSET {"revenue", "funding", "market_size", "growth_rate"},
      table_revenue \in {None, Some(0), Some(750)},
      ai_revenue \in {None, Some(1500)},
      ai_funding \in {None, Some(1500)},
      ai_market_size \in {None, Some(900000)},
      business_model \in {None, Some(40)} }

\* extractor.extract_financial_data(pdf_path)
ExtractFinancialData ==
    /\ extractor_call.op = "none"
    /\ \E src \in ExtractorSources :
         extractor_call' = [op |-> "extract_financial_data", arg |-> src,
                            ret |-> extract_financial_data(src)]
    /\ UNCHANGED extractorConstVars

\* ExtractedFinancialData objects given to calculate_confidence_scores: each
\* checklist field None or set; a revenue of 0.0 and a business model "" are
\* values, not None
ScoredData ==
    { [ EmptyFinancialData EXCEPT
          !.current_revenue = current_revenue, !.projected_revenue_y1 = y1,
          !.funding_requested = funding_requested, !.market_size_tam = market_size_tam,
          !.team_size = team_size, !.business_model = business_model ] :
      current_revenue \in {None, Some(0), Some(2000)},
      y1 \in {None, Some(3000)},
      funding_requested \in {None, Some(3000)},
      market_size_tam \in {None, Some(5000000)},
      team_size \in {None, Some(12)},
      business_model \in {None, Some(0), Some(40)} }

\* extractor.calculate_confidence_scores(extracted_data)
CalculateConfidenceScores ==
    /\ extractor_call.op = "none"
    /\ \E extracted_data \in ScoredData :
         extractor_call' = [op |-> "calculate_confidence_scores", arg |-> extracted_data,
                            ret |-> calculate_confidence_scores(extracted_data)]
    /\ UNCHANGED extractorConstVars

MaxPages == 2            \* pages of a PDF file

\* What a page gives to page.extract_text(): nothing ("" or None), a text, or
\* an exception.
PageOutcomes == {"", "text", "raise"}

PageLists == UNION {[1..n -> PageOutcomes] : n \in 0..MaxPages}

\* a PDF file as the two libraries see it: whether opening it fails, and what
\* each page gives
PdfFiles ==
    [ plumber_open_fails : BOOLEAN, plumber_pages : PageLists,
      pypdf_open_fails   : BOOLEAN, pypdf_pages   : PageLists ]

\* Method 1, the loop over pdf.pages: a page with text adds page_text + "\n",
\* an exception leaves the loop with what was added so far
RECURSIVE plumber_read(_, _)
plumber_read(pages, text_content) ==
    IF pages = <<>> THEN [failed |-> FALSE, text_content |-> text_content]
    ELSE IF Head(pages) = "raise" THEN [failed |-> TRUE, text_content |-> text_content]
    ELSE plumber_read(Tail(pages),
                      IF Head(pages) /= "" THEN text_content \o <<Head(pages), "\n">>
                      ELSE text_content)

\* Method 2, the loop over pdf_reader.pages: every page adds its text + "\n"
RECURSIVE pypdf_read(_, _)
pypdf_read(pages, text_content) ==
    IF pages = <<>> THEN [failed |-> FALSE, text_content |-> text_content]
    ELSE IF Head(pages) = "raise" THEN [failed |-> TRUE, text_content |-> text_content]
    ELSE pypdf_read(Tail(pages), text_content \o <<Head(pages), "\n">>)

\* extract_text_from_pdf: Method 1 under try/except Exception, then Method 2
\* under try/except Exception `if not text_content`
extract_text_from_pdf(file) ==
    LET primary  == IF file.plumber_open_fails
                    THEN [failed |-> TRUE, text_content |-> <<>>]
                    ELSE plumber_read(file.plumber_pages, <<>>)
        run_fallback == primary.text_content = <<>>
        fallback == IF file.pypdf_open_fails
                    THEN [failed |-> TRUE, text_content |-> primary.text_content]
                    ELSE pypdf_read(file.pypdf_pages, primary.text_content)
    IN  [ exc             |-> FALSE,
          primary_failed  |-> primary.failed,
          primary_text    |-> primary.text_content,
          fallback_ran    |-> run_fallback,
          fallback_failed |-> run_fallback /\ fallback.failed,
          text_content    |-> IF run_fallback THEN fallback.text_content
                              ELSE primary.text_content ]

\* extractor.extract_text_from_pdf(pdf_path)
ExtractTextFromPdf ==
    /\ extractor_call.op = "none"
    /\ \E file \in PdfFiles :
         extractor_call' = [op |-> "extract_text_from_pdf", arg |-> file,
                            ret |-> extract_text_from_pdf(file)]
    /\ UNCHANGED extractorConstVars

NextExtractor ==
    \/ ParseFinancialValue
    \/ ExtractFinancialMetrics
    \/ ExtractFinancialData
    \/ CalculateConfidenceScores
    \/ ExtractTextFromPdf
    \/ TakeExtracted

SpecExtractor == InitExtractor /\ [][NextExtractor]_vars

-----------------------------------------------------------------------------
(* The persistence specification: one predictor that is trained, saved,     *)
(* replaced by a fresh one or retrained, and loaded from the file           *)

\* save_model's model_data: the seven components written to the file (the
\* pickled ensemble carries its fitted state)
model_data_of(a) ==
    [ ensemble_model     |-> [run |-> a.ensemble_model, fitted |-> a.ensemble_fitted],
      individual_models  |-> a.models,
      feature_scaler     |-> a.feature_scaler,
      feature_columns    |-> a.feature_columns,
      feature_importance |-> a.feature_importance,
      model_performance  |-> a.model_performance,
      model_version      |-> a.model_version ]

\* joblib.dump and joblib.load: the bytes of a pickle and the object they give
joblib_dump(obj) == <<"pickle", obj>>
joblib_load(bytes) == bytes[2]

\* save_model: ValueError on an untrained predictor, else the file's bytes
save_model(a, trained) ==
    IF ~trained THEN [exc |-> TRUE, file |-> None]
    ELSE [exc |-> FALSE, file |-> Some(joblib_dump(model_data_of(a)))]

\* load_model with the scaler left as it was in memory
load_model_keeping_scaler(a, bytes) ==
    LET model_data == joblib_load(bytes)
    IN  [a EXCEPT !.ensemble_model     = model_data.ensemble_model.run,
                  !.ensemble_fitted    = model_data.ensemble_model.fitted,
                  !.models             = model_data.individual_models,
                  !.feature_columns    = model_data.feature_columns,
                  !.feature_importance = model_data.feature_importance,
                  !.model_performance  = model_data.model_performance,
                  !.model_version      = model_data.model_version]

\* load_model run from start to end, nobody else running
load_model(a, bytes) ==
    LET model_data == joblib_load(bytes)
    IN  [a EXCEPT !.ensemble_model     = model_data.ensemble_model.run,
                  !.ensemble_fitted    = model_data.ensemble_model.fitted,
                  !.models             = model_data.individual_models,
                  !.feature_scaler     = model_data.feature_scaler,
                  !.feature_columns    = model_data.feature_columns,
                  !.feature_importance = model_data.feature_importance,
                  !.model_performance  = model_data.model_performance,
                  !.model_version      = model_data.model_version]

\* The fitted estimators are opaque.  What the ensemble answers for one fixed
\* input is settled by which fitted ensemble, which fitted scaler and which
\* column list are used: estimators of different training runs may answer
\* differently.
ensemble_answer(a) ==
    (a.ensemble_model * 389 + a.feature_scaler * 61 + a.feature_columns * 7) % (Milli + 1)

InitPersist ==
    /\ AGENTS_AVAILABLE = FALSE
    /\ agent_orchestrator = "none"
    /\ analysis_count = 0
    /\ total_processing_time = 0
    /\ analysis_cache = EmptyDict
    /\ background_tasks = EmptyDict
    /\ predictor_call = NoCall
    /\ model_file = None
    /\ pc = "idle"
    /\ input_data = None
    /\ manual_obj = None
    /\ ml_features = EmptyDict
    /\ startup_data \in {Some(AllLowest), Some(AllHighest)}
    /\ steps = NoSteps
    /\ call_env = NoEnv
    /\ extractor_call = NoCall
    /\ outcome = "none"
    /\ result = None
    /\ prediction = None
    /\ is_trained = FALSE
    /\ artifact = InitArtifact
    /\ train_count = 0
    /\ callers = <<>>

persistConstVars ==
    <<AGENTS_AVAILABLE, agent_orchestrator, analysis_count, total_processing_time,
      analysis_cache, background_tasks, input_data, manual_obj, ml_features,
      startup_data, steps, call_env, extractor_call, outcome, result, callers>>

\* predictor.train_ensemble_model(), between two other calls
TrainBetweenCalls ==
    /\ predictor_call.op = "none"
    /\ TrainEnsembleModel

\* predictor.save_model(filepath); the file keeps, as history, the artifact
\* that was in memory when it was written
SaveModel ==
    /\ pc = "idle"
    /\ predictor_call.op = "none"
    /\ \E saved \in {save_model(artifact, is_trained)} :
        /\ predictor_call' = [op |-> "save_model", arg |-> artifact,
                              ret |-> IF saved.exc THEN "ValueError" ELSE "None"]
        /\ model_file' = IF saved.exc THEN model_file
                         ELSE Some([bytes |-> TheVal(saved.file),
                                    saved_artifact |-> artifact])
    /\ UNCHANGED <<persistConstVars, pc, prediction, is_trained, artifact, train_count>>

\* predictor = ProductionEnsemblePredictor(): a fresh, untrained predictor
NewPredictor ==
    /\ pc = "idle"
    /\ predictor_call.op = "none"
    /\ artifact /= InitArtifact
    /\ artifact' = InitArtifact
    /\ is_trained' = FALSE
    /\ UNCHANGED <<persistConstVars, pc, prediction, predictor_call, model_file,
                   train_count>>

\* predictor.load_model(filepath) of a file save_model wrote
LoadModel ==
    /\ pc = "idle"
    /\ predictor_call.op = "none"
    /\ IsSome(model_file)
    /\ artifact' = load_model(artifact, TheVal(model_file).bytes)
    /\ is_trained' = TRUE
    /\ predictor_call' = [op |-> "load_model", arg |-> artifact, ret |-> "None"]
    /\ UNCHANGED <<persistConstVars, pc, prediction, model_file, train_count>>

\* predict_startup_success training whether or not the predictor is trained
artifact_after_predict_always_training(a, trained, run) ==
    train_ensemble_model(a, run)

\* predict_startup_success, `if not self.is_trained: self.train_ensemble_model()`:
\* the artifact the prediction is made with
artifact_after_predict(a, trained, run) ==
    IF trained THEN a ELSE train_ensemble_model(a, run)

\* predictor.predict_startup_success(startup_data) between two other calls or
\* right after load_model: the ensemble in memory answers
PredictWithArtifact ==
    /\ pc = "idle"
    /\ predictor_call.op \in {"none", "load_model"}
    /\ is_trained \/ train_count < MaxTrainings
    /\ artifact' = artifact_after_predict(artifact, is_trained, train_count + 1)
    /\ train_count' = IF is_trained THEN train_count ELSE train_count + 1
    /\ is_trained' = TRUE
    /\ \E individual_predictions \in IndividualPredictions :
         \E r \in {predict_startup_success(TheVal(startup_data), ensemble_answer(artifact'),
                                           individual_predictions,
                                           artifact'.model_version)} :
            prediction' = Some(r)
    /\ pc' = "returned"
    /\ UNCHANGED <<persistConstVars, predictor_call, model_file>>

\* the caller goes on after save_model or load_model
TakePredictorCall ==
    /\ predictor_call.op /= "none"
    /\ pc = "idle"
    /\ predictor_call' = NoCall
    /\ UNCHANGED <<persistConstVars, pc, prediction, model_file, is_trained, artifact,
                   train_count>>

NextPersist ==
    \/ TrainBetweenCalls
    \/ SaveModel
    \/ NewPredictor
    \/ LoadModel
    \/ PredictWithArtifact
    \/ TakePrediction
    \/ TakePredictorCall

SpecPersist == InitPersist /\ [][NextPersist]_vars

-----------------------------------------------------------------------------
(* The synthesizer and the inference row on inputs of any Python type       *)

\* A Python value with its type: a number, None, or a str (v names the str).
Num(n)  == [type |-> "float", v |-> n]
PyNone  == [type |-> "NoneType", v |-> 0]
Str(id) == [type |-> "str", v |-> id]

\* isinstance(v, (int, float))
IsNumber(x) == x.type = "float"

\* the fields of ProductionStartupFeatures, in the order asdict() gives them
ASDICT_FIELDS ==
    <<
       "company_name", "industry", "founded_year",
       "team_size", "location", "business_stage",
       "funding_total_usd", "funding_rounds", "current_revenue_usd",
       "projected_revenue_y1", "projected_revenue_y3", "burn_rate_monthly",
       "runway_months", "gross_margin_percent", "market_size_billions",
       "addressable_market_billions", "market_growth_rate", "competition_level",
       "competitive_advantage_score", "founder_experience_years", "team_technical_score",
       "team_business_score", "advisor_quality_score", "product_readiness_score",
       "tech_differentiation_score", "user_traction_score", "product_market_fit_score",
       "business_model_clarity", "revenue_model_strength", "scalability_score",
       "go_to_market_score", "market_risk_score", "technical_risk_score",
       "team_risk_score", "financial_risk_score", "regulatory_risk_score",
       "industry_trend_score", "economic_environment_score", "vc_funding_climate_score",
       "pitch_clarity_score", "financial_projections_realism", "presentation_quality_score" >>

\* the input key every field is read from
INPUT_KEY ==
    [
      company_name |-> "company_name", industry |-> "industry",
      founded_year |-> "founded_year", team_size |-> "team_size",
      location |-> "location", business_stage |-> "business_stage",
      funding_total_usd |-> "funding_total", funding_rounds |-> "funding_rounds",
      current_revenue_usd |-> "revenue", projected_revenue_y1 |-> "projected_revenue_y1",
      projected_revenue_y3 |-> "projected_revenue_y3", burn_rate_monthly |-> "burn_rate",
      runway_months |-> "runway_months", gross_margin_percent |-> "gross_margin",
      market_size_billions |-> "market_size", addressable_market_billions |-> "sam",
      market_growth_rate |-> "market_growth_rate", competition_level |-> "competition_level",
      competitive_advantage_score |-> "competitive_advantage", founder_experience_years |-> "founder_experience",
      team_technical_score |-> "team_technical_score", team_business_score |-> "team_business_score",
      advisor_quality_score |-> "advisor_quality", product_readiness_score |-> "product_readiness",
      tech_differentiation_score |-> "tech_differentiation", user_traction_score |-> "user_traction",
      product_market_fit_score |-> "pmf_score", business_model_clarity |-> "business_model_clarity",
      revenue_model_strength |-> "revenue_model_strength", scalability_score |-> "scalability",
      go_to_market_score |-> "gtm_score", market_risk_score |-> "market_risk",
      technical_risk_score |-> "tech_risk", team_risk_score |-> "team_risk",
      financial_risk_score |-> "financial_risk", regulatory_risk_score |-> "regulatory_risk",
      industry_trend_score |-> "industry_trend", economic_environment_score |-> "economic_environment",
      vc_funding_climate_score |-> "vc_climate", pitch_clarity_score |-> "pitch_clarity",
      financial_projections_realism |-> "projections_realism", presentation_quality_score |-> "presentation_quality" ]

\* company_name, industry, location, business_stage: str fields
STR_FIELDS == {"company_name", "industry", "location", "business_stage"}

\* the defaults '', 'Technology', 'Unknown', 'Seed'
STR_DEFAULT == [company_name |-> 0, industry |-> 1, location |-> 2, business_stage |-> 3]

\* the numbers of a dict
NumbersOf(d) == [k \in {k \in DOMAIN d : IsNumber(d[k])} |-> d[k].v]

\* extract_features_from_data on a dict whose values have any type.  The
\* defaults of projected_revenue_y1/y3 (revenue * 2, revenue * 5) and of
\* addressable_market_billions (market_size * 0.1) are computed whether or
\* not they are used: None * 2 and <str or None> * 0.1 raise TypeError, and
\* <str> * 2 is a str.  A key that is present gives its value, of any type.
extract_features_from_data_typed(d) ==
    LET base    == extract_features_from_data(NumbersOf(d))
        revenue == Get(d, "revenue", Num(0))
        market  == Get(d, "market_size", Num(10))
        raises  == revenue.type = "NoneType" \/ ~IsNumber(market)
        field(f) ==
            IF INPUT_KEY[f] \in DOMAIN d THEN d[INPUT_KEY[f]]
            ELSE IF f \in STR_FIELDS THEN Str(STR_DEFAULT[f])
            ELSE IF f \in {"projected_revenue_y1", "projected_revenue_y3"}
                    /\ revenue.type = "str" THEN revenue
            ELSE Num(base[f])
    IN  [ exc      |-> raises,
          features |-> IF raises THEN None
                       ELSE Some([i \in 1..Len(ASDICT_FIELDS) |-> field(ASDICT_FIELDS[i])]) ]

\* the value of a field in the list asdict(features) gives
FieldValue(values, f) ==
    values[CHOOSE i \in 1..Len(ASDICT_FIELDS) : ASDICT_FIELDS[i] = f]

\* predict_startup_success, the row: the numeric fields that are training
\* columns make the frame, every training column not in it is appended with
\* 0.0, and the frame is left in the order it then has
inference_row_without_reorder(values, feature_columns) ==
    LET cols_of         == {feature_columns[i] : i \in 1..Len(feature_columns)}
        numeric_features == SelectSeq(ASDICT_FIELDS,
                                LAMBDA f : f \in cols_of /\ IsNumber(FieldValue(values, f)))
        in_frame        == {numeric_features[i] : i \in 1..Len(numeric_features)}
        filled          == numeric_features \o
                           SelectSeq(feature_columns, LAMBDA col : col \notin in_frame)
    IN  [ columns |-> filled,
          values  |-> [i \in 1..Len(filled) |->
                          IF filled[i] \in in_frame THEN FieldValue(values, filled[i]).v
                          ELSE 0] ]

\* predict_startup_success, the row: the numeric fields that are training
\* columns make the frame, every training column not in it is appended with
\* 0.0, and X[self.feature_columns] puts the columns in training order
inference_row(values, feature_columns) ==
    LET cols_of         == {feature_columns[i] : i \in 1..Len(feature_columns)}
        numeric_features == SelectSeq(ASDICT_FIELDS,
                                LAMBDA f : f \in cols_of /\ IsNumber(FieldValue(values, f)))
        in_frame        == {numeric_features[i] : i \in 1..Len(numeric_features)}
    IN  [ columns |-> feature_columns,
          values  |-> [i \in 1..Len(feature_columns) |->
                          IF feature_columns[i] \in in_frame
                          THEN FieldValue(values, feature_columns[i]).v
                          ELSE 0] ]

\* the fields the six _calculate_*_score methods do arithmetic on
SCORE_FIELDS ==
    { "market_size_billions", "market_growth_rate", "competition_level",
      "competitive_advantage_score",
      "founder_experience_years", "team_technical_score", "team_business_score",
      "advisor_quality_score",
      "product_readiness_score", "tech_differentiation_score", "user_traction_score",
      "product_market_fit_score",
      "business_model_clarity", "revenue_model_strength", "scalability_score",
      "go_to_market_score",
      "current_revenue_usd", "projected_revenue_y1", "runway_months",
      "gross_margin_percent",
      "market_risk_score", "technical_risk_score", "team_risk_score",
      "financial_risk_score", "regulatory_risk_score" }

\* predict_startup_success on a dict whose values have any type, on a trained
\* predictor: the synthesizer, the row for the scaler and the models, then the
\* sub-scores, whose arithmetic raises TypeError on a None or a str
predict_startup_success_typed(d, feature_columns) ==
    LET synth == extract_features_from_data_typed(d)
    IN  IF synth.exc THEN [exc |-> TRUE, row |-> None]
        ELSE LET values == TheVal(synth.features)
             IN  [ exc |-> \E f \in SCORE_FIELDS : ~IsNumber(FieldValue(values, f)),
                   row |-> Some(inference_row(values, feature_columns)) ]

\* input dicts: some keys absent, some with a number, None or a str
TypedKeys ==
    {"company_name", "team_size", "revenue", "market_size", "founder_experience",
     "pitch_clarity"}

TypedValues(k) ==
    {PyNone, Str(7)} \cup
    CASE k = "company_name"       -> {Num(42)}
      [] k = "team_size"          -> {Num(12)}
      [] k = "revenue"            -> {Num(250)}
      [] k = "market_size"        -> {Num(35)}
      [] k = "founder_experience" -> {Num(8)}
      [] k = "pitch_clarity"      -> {Num(90)}

TypedInputs ==
    UNION { { d \in [ks -> UNION {TypedValues(k) : k \in ks}] :
                \A k \in ks : d[k] \in TypedValues(k) } : ks \in SUBSET TypedKeys }

\* predictor.extract_features_from_data(startup_data)
ExtractFeaturesFromData ==
    /\ pc = "idle"
    /\ predictor_call.op = "none"
    /\ \E d \in TypedInputs :
         predictor_call' = [op |-> "extract_features_from_data", arg |-> d,
                            ret |-> extract_features_from_data_typed(d)]
    /\ UNCHANGED <<persistConstVars, pc, prediction, model_file, is_trained, artifact,
                   train_count>>

\* predictor.predict_startup_success(startup_data), training first when the
\* predictor is not trained
PredictTypedInput ==
    /\ pc = "idle"
    /\ predictor_call.op = "none"
    /\ is_trained \/ train_count < MaxTrainings
    /\ artifact' = IF is_trained THEN artifact
                   ELSE train_ensemble_model(artifact, train_count + 1)
    /\ train_count' = IF is_trained THEN train_count ELSE train_count + 1
    /\ is_trained' = TRUE
    /\ \E d \in TypedInputs :
         predictor_call' = [op |-> "predict_startup_success", arg |-> d,
                            ret |-> predict_startup_success_typed(d, FEATURE_COLUMNS)]
    /\ UNCHANGED <<persistConstVars, pc, prediction, model_file>>

NextSynth ==
    \/ ExtractFeaturesFromData
    \/ PredictTypedInput
    \/ TrainBetweenCalls
    \/ TakePredictorCall

SpecSynth == InitPersist /\ [][NextSynth]_vars

-----------------------------------------------------------------------------
(* The waiting specification: analyze_startup calls with a PDF, seen at the  *)
(* call of extract_features_from_pdf, which may or may not return            *)

\* analyze_startup up to Step 1: ml_features = input_data.manual_data or {}
\* and the update with company_name, industry and description
features_before_steps(input) ==
    Update(IF IsSome(input.manual_data) THEN TheVal(input.manual_data) ELSE EmptyDict,
           [k \in {"company_name", "industry", "description"} |->
               CASE k = "company_name" -> StrId(input.company_name)
                 [] k = "industry"     -> StrId(StrOr(input.industry, "Technology"))
                 [] k = "description"  -> StrId(StrOr(input.description, ""))])

\* pipeline.analyze_startup(input_data) with a PDF reaches Step 1 and calls
\* extract_features_from_pdf; the libraries under it either return in the end
\* or never do (steps.pdf says which)
CallExtraction ==
    /\ pc = "idle"
    /\ analysis_count < MaxAnalyses
    /\ \E id \in Identities, use_agents \in BOOLEAN, use_ml \in BOOLEAN,
          returns \in BOOLEAN,
          manual \in (IF IsSome(manual_obj) THEN {manual_obj}
                      ELSE {None} \cup {Some(m) : m \in ManualChoices}) :
        LET input == [ company_name       |-> id.company_name,
                       industry           |-> id.industry,
                       description        |-> id.description,
                       pdf_path           |-> Some("deck.pdf"),
                       manual_data        |-> manual,
                       use_pdf_extraction |-> TRUE,
                       use_ai_agents      |-> use_agents,
                       use_ml_prediction  |-> use_ml ]
            aliased == IsSome(manual) /\ DOMAIN TheVal(manual) /= {}
        IN  \E src \in PdfSourcesAt(input.pdf_path),
               agent \in (IF use_agents /\ AGENTS_AVAILABLE /\ agent_orchestrator = "ready"
                          THEN AgentOutcomes ELSE {[raises |-> FALSE, results |-> 0]}),
               ml \in (IF use_ml THEN ModelOutputs \cup {RaisingModel} ELSE {RaisingModel}) :
            /\ input_data' = Some(input)
            /\ call_env' = [pdf |-> src, agent |-> agent, ml |-> ml]
            /\ ml_features' = features_before_steps(input)
            /\ manual_obj' = IF aliased THEN Some(features_before_steps(input)) ELSE manual
            /\ steps' = [NoSteps EXCEPT !.pdf = IF returns THEN "running" ELSE "hangs"]
    /\ pc' = "extracting"
    /\ UNCHANGED <<AGENTS_AVAILABLE, agent_orchestrator, analysis_count,
                   total_processing_time, analysis_cache, background_tasks,
                   predictor_call, model_file, startup_data, extractor_call, outcome,
                   result, prediction, is_trained, artifact, train_count, callers>>

\* extract_features_from_pdf returns and analyze_startup runs to its end
ExtractionReturns ==
    /\ pc = "extracting"
    /\ steps.pdf = "running"
    /\ LET input == TheVal(input_data)
           lazy  == input.use_ml_prediction /\ ~is_trained
           processing_time == 1
       IN  \E call \in {analyze_startup(input, call_env, AGENTS_AVAILABLE,
                                        agent_orchestrator)} :
            /\ manual_obj' = IF call.aliased THEN Some(call.ml_features)
                             ELSE input.manual_data
            /\ ml_features' = call.ml_features
            /\ startup_data' = call.startup_data
            /\ steps' = StepsOf(input, call_env, AGENTS_AVAILABLE, agent_orchestrator)
            /\ outcome' = call.outcome
            /\ result' = call.result
            /\ analysis_count' = IF call.counted THEN analysis_count + 1
                                 ELSE analysis_count
            /\ total_processing_time' = IF call.counted
                                        THEN total_processing_time + processing_time
                                        ELSE total_processing_time
            /\ is_trained' = (is_trained \/ input.use_ml_prediction)
            /\ artifact' = IF lazy THEN train_ensemble_model(artifact, train_count + 1)
                           ELSE artifact
            /\ train_count' = IF lazy THEN train_count + 1 ELSE train_count
    /\ pc' = "returned"
    /\ UNCHANGED <<AGENTS_AVAILABLE, agent_orchestrator, input_data, call_env,
                   extractor_call, prediction, callers, analysis_cache,
                   background_tasks, predictor_call, model_file>>

NextWait ==
    \/ CallExtraction
    \/ ExtractionReturns
    \/ CallerKeepsManualData
    \/ CallerDropsManualData

\* the steps in which a call whose extraction returns goes on to its end:
\* the ExtractionReturns steps, which are possible in every such state
Returning ==
    /\ pc = "extracting"
    /\ steps.pdf = "running"
    /\ pc' = "returned"

\* Every step analyze_startup itself takes is taken in the end; nothing makes
\* a library call that hangs return.
SpecWait == Init /\ [][NextWait]_vars /\ WF_pc(Returning)

-----------------------------------------------------------------------------
(* The statistics specification: analyze_startup calls on the threads of the *)
(* default executor (analyze_startup_async), seen at the two counter updates *)

\* wall-clock durations a call can measure (time.time() - start_time)
Durations == {1, 2}

\* get_pipeline_stats: the average in thousandths of a time unit
get_pipeline_stats(count, total) ==
    [ pipeline_version        |-> PIPELINE_VERSION,
      total_analyses          |-> count,
      total_processing_time   |-> total,
      average_processing_time |-> IF count > 0 THEN (total * Milli) \div count ELSE 0 ]

InitStats ==
    /\ AGENTS_AVAILABLE = FALSE
    /\ agent_orchestrator = "none"
    /\ analysis_count = 0
    /\ total_processing_time = 0
    /\ analysis_cache = EmptyDict
    /\ background_tasks = EmptyDict
    /\ predictor_call = NoCall
    /\ model_file = None
    /\ pc = "idle"
    /\ input_data = None
    /\ manual_obj = None
    /\ ml_features = EmptyDict
    /\ startup_data = None
    /\ steps = NoSteps
    /\ call_env = NoEnv
    /\ extractor_call = NoCall
    /\ outcome = "none"
    /\ result = None
    /\ prediction = None
    /\ is_trained = TRUE
    /\ artifact = train_ensemble_model(InitArtifact, 1)
    /\ train_count = 1
    /\ callers = [t \in Threads |->
                    [pc |-> "idle", processing_time |-> 0, loaded |-> 0,
                     completed |-> 0, time_sum |-> 0]]

statsConstVars ==
    <<AGENTS_AVAILABLE, agent_orchestrator, analysis_cache, background_tasks,
      predictor_call, model_file, input_data, manual_obj, ml_features, startup_data,
      steps, call_env, extractor_call, prediction, is_trained, artifact, train_count>>

\* analyze_startup_async: run_in_executor runs analyze_startup on a pool
\* thread, which works through Steps 1-4 and measures its processing_time
RunInExecutor(t) ==
    /\ pc = "idle"
    /\ callers[t].pc = "idle"
    /\ callers[t].completed < MaxAnalyses
    /\ \E processing_time \in Durations :
         callers' = [callers EXCEPT ![t].pc = "load_count",
                                    ![t].processing_time = processing_time]
    /\ UNCHANGED <<statsConstVars, pc, outcome, result, analysis_count,
                   total_processing_time>>

\* self.analysis_count += 1: the attribute is read ...
LoadCount(t) ==
    /\ callers[t].pc = "load_count"
    /\ callers' = [callers EXCEPT ![t].pc = "store_count", ![t].loaded = analysis_count]
    /\ UNCHANGED <<statsConstVars, pc, outcome, result, analysis_count,
                   total_processing_time>>

\* ... and the sum is stored
StoreCount(t) ==
    /\ callers[t].pc = "store_count"
    /\ analysis_count' = callers[t].loaded + 1
    /\ callers' = [callers EXCEPT ![t].pc = "load_time"]
    /\ UNCHANGED <<statsConstVars, pc, outcome, result, total_processing_time>>

\* self.total_processing_time += processing_time: the attribute is read ...
LoadTime(t) ==
    /\ callers[t].pc = "load_time"
    /\ callers' = [callers EXCEPT ![t].pc = "store_time",
                                  ![t].loaded = total_processing_time]
    /\ UNCHANGED <<statsConstVars, pc, outcome, result, analysis_count,
                   total_processing_time>>

\* ... and the sum is stored; analyze_startup returns its result
StoreTime(t) ==
    /\ callers[t].pc = "store_time"
    /\ total_processing_time' = callers[t].loaded + callers[t].processing_time
    /\ callers' = [callers EXCEPT ![t].pc = "idle",
                                  ![t].completed = @ + 1,
                                  ![t].time_sum = @ + callers[t].processing_time]
    /\ UNCHANGED <<statsConstVars, pc, outcome, result, analysis_count>>

\* pipeline.get_pipeline_stats(); outcome notes whether a call was in progress
GetPipelineStats ==
    /\ pc = "idle"
    /\ result' = Some(get_pipeline_stats(analysis_count, total_processing_time))
    /\ outcome' = IF \A t \in Threads : callers[t].pc = "idle" THEN "quiescent"
                  ELSE "busy"
    /\ pc' = "returned"
    /\ UNCHANGED <<statsConstVars, callers, analysis_count, total_processing_time>>

\* the caller takes the statistics
TakeStats ==
    /\ pc = "returned"
    /\ result' = None
    /\ outcome' = "none"
    /\ pc' = "idle"
    /\ UNCHANGED <<statsConstVars, callers, analysis_count, total_processing_time>>

NextStats ==
    \/ \E t \in Threads :
          RunInExecutor(t) \/ LoadCount(t) \/ StoreCount(t) \/ LoadTime(t) \/ StoreTime(t)
    \/ GetPipelineStats
    \/ TakeStats

SpecStats == InitStats /\ [][NextStats]_vars

-----------------------------------------------------------------------------
(* The API specification: POST /analyze, the background task it queues,     *)
(* GET /analysis/{id}/result and DELETE /analysis/{id}                      *)

MaxRequests == 2         \* POST /analyze requests

\* generate_analysis_id gives a fresh id to every request
AnalysisIds == 1..MaxRequests

\* dict without a key (del d[k])
Del(d, k) == [x \in (DOMAIN d) \ {k} |-> d[x]]

\* the entry start_analysis puts in analysis_cache
PendingEntry == [status |-> "pending", progress |-> 0, result |-> None, error |-> None]

\* run_analysis_background.  The coroutine has no await: it runs from start to
\* end before any other handler.  Gives the cache it leaves, the statuses it
\* wrote, and whether an exception left it.
run_analysis_background(cache, analysis_id, analysis_raises) ==
    IF analysis_id \notin DOMAIN cache
    THEN \* KeyError at the first write, and again in the except handler
         [cache |-> cache, written |-> <<>>, exc |-> TRUE]
    ELSE IF analysis_raises
    THEN [ cache   |-> [cache EXCEPT ![analysis_id].status = "failed",
                                     ![analysis_id].progress = 30,
                                     ![analysis_id].error = Some("error")],
           written |-> <<"processing", "failed">>,
           exc     |-> FALSE ]
    ELSE [ cache   |-> [cache EXCEPT ![analysis_id].status = "completed",
                                     ![analysis_id].progress = 100,
                                     ![analysis_id].result = Some(analysis_id)],
           written |-> <<"processing", "completed">>,
           exc     |-> FALSE ]

\* get_analysis_result: the status code of the response
get_analysis_result(cache, analysis_id) ==
    IF analysis_id \notin DOMAIN cache THEN 404
    ELSE IF cache[analysis_id].status /= "completed" THEN 400
    ELSE IF IsNone(cache[analysis_id].result) THEN 500
    ELSE 200

InitApi ==
    /\ AGENTS_AVAILABLE = FALSE
    /\ agent_orchestrator = "none"
    /\ analysis_count = 0
    /\ total_processing_time = 0
    /\ analysis_cache = EmptyDict
    /\ background_tasks = EmptyDict
    /\ predictor_call = NoCall
    /\ model_file = None
    /\ pc = "idle"
    /\ input_data = None
    /\ manual_obj = None
    /\ ml_features = EmptyDict
    /\ startup_data = None
    /\ steps = NoSteps
    /\ call_env = NoEnv
    /\ extractor_call = NoCall
    /\ outcome = "none"
    /\ result = None
    /\ prediction = None
    /\ is_trained = FALSE
    /\ artifact = InitArtifact
    /\ train_count = 0
    /\ callers = <<>>

apiConstVars ==
    <<AGENTS_AVAILABLE, agent_orchestrator, predictor_call, model_file, input_data,
      manual_obj, ml_features, startup_data, steps, call_env, extractor_call, outcome,
      prediction, is_trained, artifact, train_count>>

\* POST /analyze: the entry is created, then the uploaded file is looked up
\* (404 when file_id matches no file), then the background task is queued.
\* callers keeps, per request, the response and the statuses written so far.
StartAnalysis ==
    /\ pc = "idle"
    /\ Len(callers) < MaxRequests
    /\ \E file_id \in {"none", "known", "unknown"} :
        LET analysis_id == Len(callers) + 1
            not_found   == file_id = "unknown"
        IN  /\ analysis_cache' = Update(analysis_cache,
                                        [x \in {analysis_id} |-> PendingEntry])
            /\ background_tasks' =
                  IF not_found THEN background_tasks
                  ELSE Update(background_tasks, [x \in {analysis_id} |-> file_id])
            /\ callers' = Append(callers,
                                 [ file_id     |-> file_id,
                                   status_code |-> IF not_found THEN 404 ELSE 200,
                                   statuses    |-> <<"pending">>,
                                   task        |-> IF not_found THEN "none" ELSE "queued" ])
    /\ UNCHANGED <<apiConstVars, pc, result, analysis_count, total_processing_time>>

\* the server runs a queued background task after the response was sent
RunAnalysisBackground(analysis_id) ==
    /\ analysis_id \in DOMAIN background_tasks
    /\ \E analysis_raises \in BOOLEAN :
         \E run \in {run_analysis_background(analysis_cache, analysis_id,
                                             analysis_raises)} :
            /\ analysis_cache' = run.cache
            /\ callers' = [callers EXCEPT
                             ![analysis_id].statuses = @ \o run.written,
                             ![analysis_id].task = IF run.exc THEN "KeyError" ELSE "done"]
            /\ analysis_count' = IF run.exc \/ analysis_raises THEN analysis_count
                                 ELSE analysis_count + 1
            /\ total_processing_time' = IF run.exc \/ analysis_raises
                                        THEN total_processing_time
                                        ELSE total_processing_time + 1
    /\ background_tasks' = Del(background_tasks, analysis_id)
    /\ UNCHANGED <<apiConstVars, pc, result>>

\* DELETE /analysis/{analysis_id} of an entry in the cache
DeleteAnalysis(analysis_id) ==
    /\ pc = "idle"
    /\ analysis_id \in DOMAIN analysis_cache
    /\ analysis_cache' = Del(analysis_cache, analysis_id)
    /\ UNCHANGED <<apiConstVars, pc, result, background_tasks, callers, analysis_count,
                   total_processing_time>>

\* GET /analysis/{analysis_id}/result
GetAnalysisResult(analysis_id) ==
    /\ pc = "idle"
    /\ result' = Some([ analysis_id |-> analysis_id,
                        status_code |-> get_analysis_result(analysis_cache, analysis_id) ])
    /\ pc' = "returned"
    /\ UNCHANGED <<apiConstVars, analysis_cache, background_tasks, callers,
                   analysis_count, total_processing_time>>

\* the client has read the response
TakeResponse ==
    /\ pc = "returned"
    /\ result' = None
    /\ pc' = "idle"
    /\ UNCHANGED <<apiConstVars, analysis_cache, background_tasks, callers,
                   analysis_count, total_processing_time>>

NextApi ==
    \/ StartAnalysis
    \/ \E analysis_id \in AnalysisIds :
          \/ RunAnalysisBackground(analysis_id)
          \/ DeleteAnalysis(analysis_id)
          \/ GetAnalysisResult(analysis_id)
    \/ TakeResponse

\* The server runs every background task it has queued.
SpecApi ==
    /\ InitApi
    /\ [][NextApi]_vars
    /\ \A analysis_id \in AnalysisIds : WF_vars(RunAnalysisBackground(analysis_id))

-----------------------------------------------------------------------------
(* Properties                                                               *)

Range(seq) == {seq[i] : i \in 1..Len(seq)}

IdentityKeys == {"company_name", "industry", "description"}

Returned == pc = "returned" /\ IsSome(input_data)

\* a finished call whose input satisfies the caller contract (a company name)
ReturnedValid == Returned /\ TheVal(input_data).company_name /= ""

\* C1: in a finished analyze_startup call whose PDF step ran, every key the
\* caller supplied in manual_data still carries the manual value in the feature
\* dict that reaches the synthesizer and the predictor (manual beats extracted).
C1_ManualBeatsExtracted ==
    (ReturnedValid /\ steps.pdf = "ok" /\ IsSome(TheVal(input_data).manual_data))
    => \A k \in DOMAIN TheVal(TheVal(input_data).manual_data) \ IdentityKeys :
          /\ ml_features[k] = TheVal(TheVal(input_data).manual_data)[k]
          /\ IsSome(startup_data) =>
                TheVal(startup_data)[k] = TheVal(TheVal(input_data).manual_data)[k]

\* C2: when PDF extraction was requested and failed (no readable text, or the
\* extractor raised), the returned result's components_used does not contain
\* "PDF_EXTRACTION".
C2_FailedExtractionNotTagged ==
    (ReturnedValid /\ steps.pdf = "failed" /\ IsSome(result))
    => "PDF_EXTRACTION" \notin Range(TheVal(result).components_used)

\* C3: when PDF extraction was requested and failed, overall_confidence equals
\* the ML model_confidence alone.
C3_FailedExtractionNotAveraged ==
    (ReturnedValid /\ steps.pdf = "failed" /\ IsSome(result))
    => TheVal(result).overall_confidence = TheVal(result).ml_prediction.model_confidence

\* C4: when the ML step raised its tag "ML_PREDICTION" is not in
\* components_used, and when the agent step raised or gave no result its tag
\* "AI_AGENTS" is not in components_used.
C4_FailedStepsNotTagged ==
    (ReturnedValid /\ IsSome(result))
    => /\ steps.ml = "failed"
            => "ML_PREDICTION" \notin Range(TheVal(result).components_used)
       /\ steps.agents = "failed"
            => "AI_AGENTS" \notin Range(TheVal(result).components_used)

\* C5: for a non-empty company_name and any flags, analyze_startup returns a
\* complete result (ml_prediction present, overall_confidence and
\* data_completeness set) whatever steps fail; no exception reaches the caller.
C5_AlwaysReturnsCompleteResult ==
    ReturnedValid
    => /\ outcome = "returned"
       /\ IsSome(result)
       /\ TheVal(result).ml_prediction.success_probability \in 0..Milli
       /\ TheVal(result).ml_prediction.model_confidence \in 0..Milli
       /\ TheVal(result).overall_confidence \in 0..Milli
       /\ TheVal(result).data_completeness \in 0..Milli

\* C5 witness: a returned call with all three steps requested and all failing
C5_AllStepsFailedWitness ==
    /\ ReturnedValid
    /\ steps = [pdf |-> "failed", agents |-> "failed", ml |-> "failed"]
    /\ outcome = "returned"
    /\ IsSome(result)

\* C6: a call with an empty company_name is refused: it raises a validation
\* failure, hands nothing to the predictor and returns no result.
C6_EmptyCompanyNameRefused ==
    (Returned /\ TheVal(input_data).company_name = "")
    => /\ outcome = "raised"
       /\ IsNone(result)
       /\ IsNone(startup_data)

\* a sub-score (hundredths of a point) within 0..100 points
InScoreRange(x) == x >= 0 /\ x <= 100 * Cent

\* C7: each of the six sub-scores of a prediction lies in [0, 100] for every
\* input whose fields are inside their documented ranges.
C7_SubScoresInRange ==
    IsSome(prediction)
    => /\ InScoreRange(TheVal(prediction).market_score)
       /\ InScoreRange(TheVal(prediction).team_score)
       /\ InScoreRange(TheVal(prediction).product_score)
       /\ InScoreRange(TheVal(prediction).business_model_score)
       /\ InScoreRange(TheVal(prediction).financial_score)
       /\ InScoreRange(TheVal(prediction).risk_score)

\* 0 <= lower <= probability <= upper <= 1
IntervalAround(r) ==
    /\ 0 <= r.confidence_interval[1]
    /\ r.confidence_interval[1] <= r.success_probability
    /\ r.success_probability <= r.confidence_interval[2]
    /\ r.confidence_interval[2] <= Milli

\* C8: every ml_prediction placed in a result (predicted, skipped or error
\* default) has 0 <= confidence_interval[0] <= success_probability <=
\* confidence_interval[1] <= 1.
C8_IntervalAroundProbability ==
    IsSome(result) => IntervalAround(TheVal(result).ml_prediction)

\* C8 witness: a predicted result whose interval was clipped at both ends
C8_ClippedIntervalWitness ==
    /\ Returned
    /\ IsSome(result)
    /\ steps.ml = "ok"
    /\ TheVal(result).ml_prediction.model_confidence < Milli
    /\ TheVal(result).ml_prediction.success_probability \notin {0, Milli}
    /\ TheVal(result).ml_prediction.confidence_interval = <<0, Milli>>

\* C9: category and recommendation follow the threshold policy exactly:
\* p >= 0.70 High Potential / INVEST, 0.40 <= p < 0.70 Medium Potential /
\* WATCH, p < 0.40 Low Potential / PASS.
C9_ThresholdPolicy ==
    IsSome(prediction)
    => LET r == TheVal(prediction)
           p == r.success_probability
       IN  /\ p >= 700
                => r.success_category = "High Potential"
                   /\ r.investment_recommendation = "INVEST"
           /\ (p >= 400 /\ p < 700)
                => r.success_category = "Medium Potential"
                   /\ r.investment_recommendation = "WATCH"
           /\ p < 400
                => r.success_category = "Low Potential"
                   /\ r.investment_recommendation = "PASS"

\* C9 witness: a prediction exactly on the 0.70 boundary, rated High / INVEST
C9_BoundaryWitness ==
    /\ IsSome(prediction)
    /\ TheVal(prediction).success_probability = 700
    /\ TheVal(prediction).success_category = "High Potential"
    /\ TheVal(prediction).investment_recommendation = "INVEST"

\* C10: with concurrent callers on one untrained predictor, training is
\* started at most once.
C10_TrainsAtMostOnce == train_count <= 1

\* an artifact all of whose components come from one training run or one
\* loaded file, with a fitted ensemble
CompleteArtifact(a) ==
    /\ a.ensemble_fitted
    /\ a.feature_scaler = a.feature_columns
    /\ a.ensemble_model = a.feature_columns
    /\ DOMAIN a.models = DOMAIN a.base_models
    /\ \A m \in DOMAIN a.models : a.models[m] = a.feature_columns

\* C11: while train_ensemble_model (retraining) or load_model runs on a trained
\* predictor, every concurrent predict observes a complete artifact, the old
\* one or the new one, never a mix of components of two generations and never
\* an ensemble that is assigned but not fitted.
C11_PredictSeesCompleteArtifact ==
    \A t \in Threads : callers[t].pc = "done" => CompleteArtifact(callers[t].saw)

\* the request of the call in hand with one manual_data value replaced
WithManual(input, k, v) ==
    [input EXCEPT !.manual_data = Some(Update(TheVal(input.manual_data), [x \in {k} |-> v]))]

\* market_score of the result analyze_startup gives for `input` when the
\* fitted models answer `ml` (no PDF step, no agent step)
MarketScoreOf(input, ml) ==
    TheVal(analyze_startup(input, [pdf |-> NoTextSource,
                                   agent |-> [raises |-> FALSE, results |-> 0],
                                   ml |-> ml],
                           AGENTS_AVAILABLE, agent_orchestrator).result)
        .ml_prediction.market_score

\* C12: for a predicted call without PDF extraction whose manual_data is
\* {revenue: 1_000_000, market_size_billions: 5.0, team_size: 10}, the
\* market_score of the result is strictly greater than the market_score of the
\* same request with market_size_billions lowered to 0.5.
C12_LargerMarketScoresHigher ==
    ( /\ ReturnedValid
      /\ IsSome(result)
      /\ steps.pdf = "skipped"
      /\ steps.ml = "ok"
      /\ TheVal(input_data).manual_data = Some(ManualScenario) )
    => \A ml \in ModelOutputs :
          TheVal(result).ml_prediction.market_score
              > MarketScoreOf(WithManual(TheVal(input_data), "market_size_billions", 5), ml)

\* the call in hand made again with another use_ai_agents flag, another agent
\* collaborator and another answer from it, everything else the same
WithAgents(use_agents, available, orchestrator, agent) ==
    analyze_startup([TheVal(input_data) EXCEPT !.use_ai_agents = use_agents],
                    [call_env EXCEPT !.agent = agent], available, orchestrator)

\* the ways the agent step can go: not requested, requested without the agent
\* package, requested with no orchestrator, and each answer of an orchestrator
AgentAlternatives ==
    { [use |-> FALSE, available |-> TRUE, orchestrator |-> "ready",
       agent |-> [raises |-> FALSE, results |-> 1]],
      [use |-> TRUE, available |-> FALSE, orchestrator |-> "none",
       agent |-> [raises |-> FALSE, results |-> 1]],
      [use |-> TRUE, available |-> TRUE, orchestrator |-> "none",
       agent |-> [raises |-> FALSE, results |-> 1]] }
    \cup { [use |-> TRUE, available |-> TRUE, orchestrator |-> "ready", agent |-> a] :
             a \in AgentOutcomes }

\* C13: the feature dict handed to the predictor, and the ml_prediction, are
\* the same whether use_ai_agents is on or off and whatever the agent
\* collaborator returns; the agent result is in agent_analysis only and no key
\* of it is in the feature dict.
C13_AgentResultNeverMerged ==
    (Returned /\ IsSome(result))
    => /\ \A c \in AgentAlternatives :
            LET alt == WithAgents(c.use, c.available, c.orchestrator, c.agent)
            IN  /\ alt.startup_data = startup_data
                /\ alt.ml_features = ml_features
                /\ TheVal(alt.result).ml_prediction = TheVal(result).ml_prediction
       /\ IsSome(TheVal(result).agent_analysis)
            => DOMAIN TheVal(TheVal(result).agent_analysis) \cap DOMAIN ml_features = {}

\* C13 witness: a predicted call whose agent step returned a result
C13_AgentAnsweredWitness ==
    /\ Returned
    /\ IsSome(result)
    /\ steps.agents = "ok"
    /\ steps.ml = "ok"
    /\ IsSome(startup_data)
    /\ IsSome(TheVal(result).agent_analysis)
    /\ TheVal(TheVal(result).agent_analysis)["agent_results"] = 2

\* number of occurrences of a tag in components_used
TagCount(seq, tag) == Cardinality({i \in 1..Len(seq) : seq[i] = tag})

\* C14: a call with use_ml_prediction off does not reach the predictor (nothing
\* is handed to it and no lazy training happens: is_trained, the artifact and
\* the number of trainings are untouched) and returns success_probability 0.5,
\* category "Analysis Skipped", recommendation WATCH, without the tag
\* "ML_PREDICTION"; a call with it on hands the feature dict to the predictor
\* and carries the tag exactly once.
C14_SkippedPredictionDefault ==
    [][ (pc = "idle" /\ pc' = "returned" /\ IsSome(input_data') /\ IsSome(result'))
        => LET r == TheVal(result')
           IN  IF TheVal(input_data').use_ml_prediction
               THEN /\ IsSome(startup_data')
                    /\ TagCount(r.components_used, "ML_PREDICTION") = 1
                    /\ is_trained'
                    /\ train_count' = IF is_trained THEN train_count ELSE train_count + 1
                    /\ r.ml_prediction.success_category /= "Analysis Skipped"
               ELSE /\ IsNone(startup_data')
                    /\ UNCHANGED <<is_trained, artifact, train_count>>
                    /\ r.ml_prediction.success_probability = Milli \div 2
                    /\ r.ml_prediction.success_category = "Analysis Skipped"
                    /\ r.ml_prediction.investment_recommendation = "WATCH"
                    /\ TagCount(r.components_used, "ML_PREDICTION") = 0 ]_vars

\* C14 witness: a call with the ML step off returned on a predictor that is
\* still untrained
C14_SkippedWitness ==
    /\ ReturnedValid
    /\ IsSome(result)
    /\ ~TheVal(input_data).use_ml_prediction
    /\ TheVal(result).ml_prediction.success_category = "Analysis Skipped"
    /\ ~is_trained
    /\ train_count = 0

\* step 1 ran: PDF extraction was requested with a path
Step1Ran == steps.pdf /= "skipped"

Last(str) == str[Len(str)]
Front(str) == SubSeq(str, 1, Len(str) - 1)

\* the power of ten of a K/M/B suffix, in either case
SuffixExp(c) ==
    CASE c \in {"K", "k"} -> 3 [] c \in {"M", "m"} -> 6 [] c \in {"B", "b"} -> 9

\* C16: parse_financial_value never raises; with '$' and ',' removed and the
\* surrounding whitespace stripped, a remainder that ends in K/M/B in either
\* case after a numeric prefix gives prefix * 1e3/1e6/1e9, a remainder that is
\* a number gives that number, and anything else (the empty string and "abc"
\* included) gives None; "$2.5M" gives 2500000.0 and "1,200" gives 1200.0.
C16_ParseValueTotal ==
    extractor_call.op = "parse_financial_value"
    => LET rest == Strip(Remove(extractor_call.arg, {"$", ","}))
           ret  == extractor_call.ret
       IN  /\ ~ret.exc
           /\ IF /\ rest /= <<>>
                 /\ Last(rest) \in {"K", "k", "M", "m", "B", "b"}
                 /\ ~py_float(Front(rest)).exc
              THEN ret.value = Some(TimesPow10(py_float(Front(rest)).value,
                                               SuffixExp(Last(rest))))
              ELSE IF ~py_float(rest).exc
              THEN ret.value = Some(py_float(rest).value)
              ELSE ret.value = None
           /\ extractor_call.arg = <<"$", "2", ".", "5", "M">>
                => ret.value = Some([kind |-> "num", num |-> 25, dec |-> 1, exp |-> 6])
           /\ extractor_call.arg = <<"1", ",", "2", "0", "0">>
                => ret.value = Some([kind |-> "num", num |-> 1200, dec |-> 0, exp |-> 0])
           /\ extractor_call.arg \in {<<>>, <<"a", "b", "c">>} => ret.value = None

\* C16 witness: a lower-case suffix after '$', ',' and blanks were removed
C16_LowerCaseSuffixWitness ==
    /\ extractor_call.op = "parse_financial_value"
    /\ extractor_call.arg = <<" ", "$", "1", ".", "5", "0", " ", "b", " ">>
    /\ extractor_call.ret.value = Some([kind |-> "num", num |-> 15, dec |-> 1, exp |-> 9])

\* the parsed values of all the matches that parse, zero included
RECURSIVE ParsedValues(_)
ParsedValues(matches) ==
    IF matches = <<>> THEN <<>>
    ELSE (IF IsSome(parse_financial_value(Head(matches)).value)
          THEN <<InThousands(TheVal(parse_financial_value(Head(matches)).value))>>
          ELSE <<>>)
         \o ParsedValues(Tail(matches))

\* C17: for each metric type extract_financial_metrics gives the median of the
\* parsed values of all the matches of the type's patterns, leaving out only
\* the matches that do not parse (a match that parses to 0 counts); the key is
\* in the output exactly when a match parsed.
C17_MedianOfParsedMatches ==
    extractor_call.op = "extract_financial_metrics"
    => \A t \in METRIC_TYPES :
          LET values == ParsedValues(extractor_call.arg[t])
          IN  /\ (t \in DOMAIN extractor_call.ret) <=> (values /= <<>>)
              /\ values /= <<>> /\ t \in DOMAIN extractor_call.ret
                    => extractor_call.ret[t] = np_median(values)

\* the first element of a sequence of Optionals that is not None
RECURSIVE FirstNonNull(_)
FirstNonNull(sources) ==
    IF sources = <<>> THEN None
    ELSE IF Head(sources) /= None THEN Head(sources)
    ELSE FirstNonNull(Tail(sources))

\* C18: for a field with several sources extract_financial_data takes the
\* regex value when it is not null, else the table-derived median when it is
\* not null, else the supplied estimate; an earlier non-null source, a value
\* of 0 included, is never overridden by a later one and sources are not
\* blended.
C18_FirstNonNullSourceWins ==
    (extractor_call.op = "extract_financial_data" /\ extractor_call.arg.has_text)
    => LET src == extractor_call.arg
           ret == extractor_call.ret
       IN  /\ ret.current_revenue =
                 FirstNonNull(<<GetOpt(src.regex, "revenue"), src.table_revenue,
                                src.ai_revenue>>)
           /\ ret.funding_requested =
                 FirstNonNull(<<GetOpt(src.regex, "funding"), src.ai_funding>>)
           /\ ret.market_size_tam =
                 FirstNonNull(<<GetOpt(src.regex, "market_size"), src.ai_market_size>>)

\* the checklist fields of `data` that are populated (not None)
Populated(data) == {i \in 1..Len(KEY_FIELDS) : data[KEY_FIELDS[i]] /= None}

\* C19: completeness_score is the number of populated fields among
\* current_revenue, projected_revenue_y1, funding_requested, market_size_tam,
\* team_size and business_model, divided by 6; it is within [0, 1] and does
\* not decrease when one more checklist field becomes populated.
C19_CompletenessIsPopulatedShare ==
    extractor_call.op = "calculate_confidence_scores"
    => LET data == extractor_call.arg
           completeness_score == extractor_call.ret[2]
       IN  /\ completeness_score = (Cardinality(Populated(data)) * Milli) \div 6
           /\ completeness_score \in 0..Milli
           /\ \A more \in ScoredData :
                 (/\ Populated(data) \subseteq Populated(more)
                  /\ Cardinality(Populated(more)) = Cardinality(Populated(data)) + 1)
                 => calculate_confidence_scores(more)[2] >= completeness_score

\* C19 witness: three of the six fields populated, one of them a revenue of 0
C19_ZeroRevenueCountedWitness ==
    /\ extractor_call.op = "calculate_confidence_scores"
    /\ extractor_call.arg.current_revenue = Some(0)
    /\ Cardinality(Populated(extractor_call.arg)) = 3
    /\ extractor_call.ret[2] = Milli \div 2

\* the trust weights of the populated fields among revenue, funding, market
\* size and business model
PopulatedWeights(data) ==
       (IF data.current_revenue /= None THEN <<REVENUE_CONFIDENCE>> ELSE <<>>)
    \o (IF data.funding_requested /= None THEN <<FUNDING_CONFIDENCE>> ELSE <<>>)
    \o (IF data.market_size_tam /= None THEN <<MARKET_SIZE_CONFIDENCE>> ELSE <<>>)
    \o (IF data.business_model /= None THEN <<BUSINESS_MODEL_CONFIDENCE>> ELSE <<>>)

\* C20: extraction_confidence is the mean of the weights 0.9 (revenue), 0.85
\* (funding), 0.8 (market size), 0.7 (business model) over the fields that are
\* populated, and 0.3 when none of the four is; populated means the same as
\* for completeness (not None).
C20_ConfidenceIsMeanOfPopulatedWeights ==
    extractor_call.op = "calculate_confidence_scores"
    => LET weights == PopulatedWeights(extractor_call.arg)
       IN  extractor_call.ret[1] =
              IF weights /= <<>> THEN SumSeq(weights) \div Len(weights)
              ELSE 300

\* the components of the trained artifact
ArtifactComponents ==
    {"models", "ensemble_model", "ensemble_fitted", "feature_scaler", "feature_columns",
     "feature_importance", "model_performance", "model_version"}

\* C21: after load_model of a file written by save_model, into the same or a
\* fresh predictor, every component of the artifact in memory is the one that
\* was in memory at save time, the predictor is marked trained, and the
\* ensemble answers the same input with the same probability; nothing of the
\* artifact that was in memory before the load remains.
C21_SaveLoadRoundTrip ==
    predictor_call.op = "load_model"
    => LET saved == TheVal(model_file).saved_artifact
       IN  /\ is_trained
           /\ \A c \in ArtifactComponents : artifact[c] = saved[c]
           /\ ensemble_answer(artifact) = ensemble_answer(saved)
           /\ pc = "returned"
              => TheVal(prediction).success_probability = ensemble_answer(saved)

\* C21 witness: a file saved after the first training is loaded into a fresh
\* predictor
C21_LoadIntoFreshWitness ==
    /\ predictor_call.op = "load_model"
    /\ predictor_call.arg = InitArtifact
    /\ TheVal(model_file).saved_artifact.feature_scaler = 1
    /\ artifact.feature_scaler = 1
    /\ is_trained
    /\ pc = "returned"
    /\ TheVal(prediction).success_probability = ensemble_answer(artifact)

\* the value the caller gave for the input key of a column, when it is a number
GivenNumber(d, col) ==
    IF INPUT_KEY[col] \in DOMAIN d /\ IsNumber(d[INPUT_KEY[col]])
    THEN Some(d[INPUT_KEY[col]].v) ELSE None

\* C22: whatever the input dict holds, predict_startup_success returns without
\* raising, and the row given to the scaler and the models has exactly the
\* training columns in training order, with 0.0 in every column whose input
\* value is not a number and the given number elsewhere.
C22_RowInTrainingOrderAndNoRaise ==
    predictor_call.op = "predict_startup_success"
    => /\ ~predictor_call.ret.exc
       /\ IsSome(predictor_call.ret.row)
       /\ LET row == TheVal(predictor_call.ret.row)
              d   == predictor_call.arg
          IN  /\ row.columns = FEATURE_COLUMNS
              /\ \A i \in 1..Len(FEATURE_COLUMNS) :
                    LET col == FEATURE_COLUMNS[i]
                    IN  /\ INPUT_KEY[col] \in DOMAIN d /\ ~IsNumber(d[INPUT_KEY[col]])
                           => row.values[i] = 0
                        /\ IsSome(GivenNumber(d, col))
                           => row.values[i] = TheVal(GivenNumber(d, col))

\* the row alone: whenever a row reaches the scaler it has the training
\* columns in training order, 0.0 for a non-numeric input value
InferenceRowMatchesTraining ==
    (predictor_call.op = "predict_startup_success" /\ IsSome(predictor_call.ret.row))
    => LET row == TheVal(predictor_call.ret.row)
           d   == predictor_call.arg
       IN  /\ row.columns = FEATURE_COLUMNS
           /\ \A i \in 1..Len(FEATURE_COLUMNS) :
                 LET col == FEATURE_COLUMNS[i]
                 IN  /\ INPUT_KEY[col] \in DOMAIN d /\ ~IsNumber(d[INPUT_KEY[col]])
                        => row.values[i] = 0
                     /\ IsSome(GivenNumber(d, col))
                        => row.values[i] = TheVal(GivenNumber(d, col))

\* a row was built from an input with a None under a key no sub-score reads
NoneFilledRowReached ==
    /\ predictor_call.op = "predict_startup_success"
    /\ "team_size" \in DOMAIN predictor_call.arg
    /\ predictor_call.arg["team_size"] = PyNone
    /\ ~predictor_call.ret.exc

\* C25: for every input dict the synthesizer returns a feature vector whose
\* every numeric field is a number: the number the input gives, or the
\* documented default when the input has no number for it (key absent, None
\* or not a number); it never raises and no field is None.
C25_EveryFieldIsANumber ==
    predictor_call.op = "extract_features_from_data"
    => /\ ~predictor_call.ret.exc
       /\ IsSome(predictor_call.ret.features)
       /\ LET d        == predictor_call.arg
              values   == TheVal(predictor_call.ret.features)
              defaults == extract_features_from_data(NumbersOf(d))
          IN  \A f \in DOMAIN defaults :
                 FieldValue(values, f) = Num(defaults[f])

\* C23: when the PDF step extracted customers and/or revenue, the feature
\* vector built from the dict handed to the predictor has user_traction_score
\* = min(customers/10000, 1.0) (when customers were extracted) and
\* product_readiness_score = 0.8 if revenue > 0, else 0.6 if customers > 0,
\* else 0.4.
C23_DerivedScoresReachFeatureVector ==
    (steps.pdf = "ok" /\ steps.ml = "ok" /\ IsSome(startup_data))
    => LET pdf_data == extract_financial_data(call_env.pdf)
           features == extract_features_from_data(TheVal(startup_data))
           revenue  == pdf_data.current_revenue
           customers == pdf_data.customers
       IN  (Truthy(customers) \/ Truthy(revenue))
           => /\ Truthy(customers)
                 => features.user_traction_score = Min(TheVal(customers) \div 100, Cent)
              /\ features.product_readiness_score =
                    IF Truthy(revenue) /\ TheVal(revenue) > 0 THEN 80
                    ELSE IF Truthy(customers) /\ TheVal(customers) > 0 THEN 60
                    ELSE 40

\* C24: extract_text_from_pdf never raises; the fallback extractor runs
\* exactly when the primary extractor failed (also after it had read some
\* pages) or gave an empty text; and when both extractors fail the returned
\* text is empty.
C24_ExtractTextFallsBack ==
    extractor_call.op = "extract_text_from_pdf"
    => LET ret == extractor_call.ret
       IN  /\ ~ret.exc
           /\ ret.fallback_ran <=> (ret.primary_failed \/ ret.primary_text = <<>>)
           /\ (ret.primary_failed /\ ret.fallback_failed) => ret.text_content = <<>>

\* extract_text_from_pdf never raises, and the fallback runs whenever the
\* primary extractor left no text
ExtractTextNeverRaises ==
    extractor_call.op = "extract_text_from_pdf"
    => /\ ~extractor_call.ret.exc
       /\ extractor_call.ret.primary_text = <<>> => extractor_call.ret.fallback_ran

\* C26: a predict_startup_success call on a trained predictor, trained by
\* train_ensemble_model or by load_model, leaves every component of the
\* artifact and is_trained as they were and trains nothing; and is_trained of
\* a predictor never goes from true to false (it is false again only on a
\* freshly constructed predictor).
C26_PredictLeavesTrainedArtifact ==
    [][ /\ (is_trained /\ pc = "idle" /\ pc' = "returned")
           => /\ \A c \in ArtifactComponents : artifact'[c] = artifact[c]
              /\ artifact'.base_models = artifact.base_models
              /\ is_trained'
              /\ train_count' = train_count
        /\ (is_trained /\ ~is_trained') => artifact' = InitArtifact ]_vars

\* C26 witness: after a retraining the file of the first training was loaded
\* and a prediction was made with it
C26_PredictAfterLoadWitness ==
    /\ predictor_call.op = "load_model"
    /\ pc = "returned"
    /\ train_count = 2
    /\ artifact.ensemble_model = 1
    /\ predictor_call.arg.ensemble_model = 2

\* C27: an analyze_startup call waiting for extract_features_from_pdf returns
\* in the end, also when the extraction never returns.
C27_AnalyzeReturnsDespiteHang ==
    (pc = "extracting") ~> (pc = "returned")

\* an analyze_startup call whose extraction returns does return
AnalyzeReturnsWhenExtractionDoes ==
    (pc = "extracting" /\ steps.pdf = "running") ~> (pc = "returned")

\* C28: when analyze_startup has returned, the manual_data dict of the caller
\* is what the caller passed, and the working dict of a call that skipped the
\* PDF step holds no PDF-derived feature (nothing of an earlier call
\* that shared the manual_data object has leaked into it).
C28_CallerManualDataUnchanged ==
    (pc = "returned" /\ IsSome(input_data))
    => /\ IsSome(TheVal(input_data).manual_data)
          => manual_obj = TheVal(input_data).manual_data
       /\ steps.pdf = "skipped" => "extraction_confidence" \notin DOMAIN ml_features

\* the calls completed so far and their processing times, over all threads
RECURSIVE SumOver(_, _)
SumOver(f, ts) ==
    IF ts = {} THEN 0
    ELSE LET t == CHOOSE x \in ts : TRUE IN f[t] + SumOver(f, ts \ {t})

CompletedCalls == SumOver([t \in Threads |-> callers[t].completed], Threads)
CompletedTime  == SumOver([t \in Threads |-> callers[t].time_sum], Threads)

\* C29: when get_pipeline_stats is called with no analyze_startup call in
\* progress, total_analyses is the number of calls completed,
\* total_processing_time the sum of their processing times, and
\* average_processing_time their quotient, or 0 when no call was made.
C29_StatsCountEveryCall ==
    (pc = "returned" /\ outcome = "quiescent")
    => LET stats == TheVal(result)
       IN  /\ stats.total_analyses = CompletedCalls
           /\ stats.total_processing_time = CompletedTime
           /\ stats.average_processing_time =
                 IF CompletedCalls = 0 THEN 0
                 ELSE (CompletedTime * Milli) \div CompletedCalls

\* C30: every entry POST /analyze created in analysis_cache reaches the status
\* "completed" or "failed" in the end, also when the request was answered 404
\* for an unknown file_id or the entry was deleted before its task ran.
C30_EveryEntryReachesFinalStatus ==
    \A analysis_id \in AnalysisIds :
        (analysis_id <= Len(callers))
        ~> (/\ analysis_id \in DOMAIN analysis_cache
            /\ analysis_cache[analysis_id].status \in {"completed", "failed"})

\* the statuses written for an entry go pending, processing, then completed
\* or failed
StatusesInOrder ==
    \A analysis_id \in 1..Len(callers) :
        callers[analysis_id].statuses \in
            { <<"pending">>, <<"pending", "processing", "completed">>,
              <<"pending", "processing", "failed">> }

\* GET /analysis/{id}/result answers 200 exactly when the entry is there with
\* status "completed"
ResultExactlyWhenCompleted ==
    [][ (pc = "idle" /\ pc' = "returned")
        => LET r == TheVal(result')
           IN  r.status_code = 200
               <=> /\ r.analysis_id \in DOMAIN analysis_cache
                   /\ analysis_cache[r.analysis_id].status = "completed" ]_vars

====
